---- MODULE Spec2Model ----
(***************************************************************************)
(* The broker-side module host of flux-core (src/broker/module.c): one     *)
(* module record, the PAIR channel between the broker and the module       *)
(* thread, the message rewriting of module_sendmsg and module_recvmsg,     *)
(* the module thread (module_thread) with its FINALIZING handshake, and    *)
(* the lifecycle status of the record.                                     *)
(* The service table of the broker (servhash.c) is modelled beside it.     *)
(*                                                                         *)
(* The specifications share the variables:                                 *)
(*   Spec       the broker thread and the module thread running together;  *)
(*   SpecApi    the broker calling module_set_status, module_mute and      *)
(*              module_sendmsg in any order with any message;              *)
(*   SpecRecv   the module putting any message on the channel and the      *)
(*              broker pulling it with module_recvmsg;                     *)
(*   SpecStatus, SpecQueue, SpecSubs, SpecLife, SpecLifeFair, SpecNormal,  *)
(*   SpecCancel, SpecCreate, SpecNull and SpecServ are introduced where    *)
(*   they are defined.                                                     *)
(***************************************************************************)
EXTENDS Integers, Sequences, FiniteSets, TLC

(***************************************************************************)
(* Bounds of the model.                                                    *)
(***************************************************************************)
\* messages one direction of the channel holds at once
MaxQueue == 1
\* module_sendmsg calls the broker makes in a run of Spec
MaxSend == 2
\* messages the entry point sends on its own in a run of Spec
MaxModSend == 1

(***************************************************************************)
(* Program constants.                                                      *)
(***************************************************************************)
FLUX_MODSTATE_INIT == 0
FLUX_MODSTATE_RUNNING == 1
FLUX_MODSTATE_FINALIZING == 2
FLUX_MODSTATE_EXITED == 3
ModStates == {FLUX_MODSTATE_INIT, FLUX_MODSTATE_RUNNING,
              FLUX_MODSTATE_FINALIZING, FLUX_MODSTATE_EXITED}

FLUX_MSGTYPE_REQUEST == 1
FLUX_MSGTYPE_RESPONSE == 2
FLUX_MSGTYPE_EVENT == 4
FLUX_MSGTYPE_CONTROL == 8
MsgTypes == {FLUX_MSGTYPE_REQUEST, FLUX_MSGTYPE_RESPONSE,
             FLUX_MSGTYPE_EVENT, FLUX_MSGTYPE_CONTROL}

FLUX_ROLE_NONE == 0
FLUX_ROLE_OWNER == 1
FLUX_ROLE_USER == 2
FLUX_ROLE_LOCAL == 4
\* (uint32_t)-1
FLUX_USERID_UNKNOWN == -1
FLUX_MATCHTAG_NONE == 0

\* errno as the failing library call left it, where the code sets none
ELIB == 0
ENOENT == 2
ESRCH == 3
EIO == 5
ENOMEM == 12
EEXIST == 17
EINVAL == 22
ENOSYS == 38
EPROTO == 71
ECONNRESET == 104

\* rolemask bit test: mask & FLUX_ROLE_OWNER (bit 0)
HasOwner(rolemask) == rolemask % 2 = 1

\* the topic of the status report RPC
StatusTopic == "broker.module-status"
Topics == {"x.y", StatusTopic}

\* p->uuid_str, p->parent_uuid_str, and the identity of some other peer
uuid_str == "M"
parent_uuid_str == "B"
ClientId == "c"

\* getuid () of the broker, and the userid of some other user
OwnerUid == 1000
GuestUid == 1001

\* p->cred as module_create sets it
p_cred == [userid |-> OwnerUid, rolemask |-> FLUX_ROLE_OWNER + FLUX_ROLE_LOCAL]

(***************************************************************************)
(* Messages.  route is the route stack, its top (the entry pushed last) at *)
(* the end of the sequence.  payload is the body: <<>> when there is none, *)
(* <<status>> or <<status, errnum>> for a status report.  orig is history: *)
(* on a request the broker sent through module_sendmsg and on the reply to *)
(* it, <<route, topic>> of the message the broker passed to                *)
(* module_sendmsg; <<>> on any other message.                              *)
(***************************************************************************)
Msg(type, topic, route, userid, rolemask, matchtag, errnum, payload) ==
    [type |-> type, topic |-> topic, route |-> route, userid |-> userid,
     rolemask |-> rolemask, matchtag |-> matchtag, errnum |-> errnum,
     payload |-> payload, orig |-> <<>>]

\* no message: a NULL flux_msg_t pointer
NoMsg == [type |-> 0, topic |-> "", route |-> <<>>, userid |-> FLUX_USERID_UNKNOWN,
          rolemask |-> FLUX_ROLE_NONE, matchtag |-> FLUX_MATCHTAG_NONE,
          errnum |-> 0, payload |-> <<>>, orig |-> <<>>]

\* m and n agree on everything but the route stack (and the history fields)
SameButRoute(m, n) ==
    /\ m.type = n.type
    /\ m.topic = n.topic
    /\ m.userid = n.userid
    /\ m.rolemask = n.rolemask
    /\ m.matchtag = n.matchtag
    /\ m.errnum = n.errnum
    /\ m.payload = n.payload

Top(route) == route[Len(route)]

\* the route stack with its entries below the top
Below(route) == SubSeq(route, 1, Len(route) - 1)

\* flux_msg_route_push: id becomes the top of the route stack
flux_msg_route_push(route, id) == Append(route, id)

\* flux_msg_route_delete_last: the top entry is removed; an empty route stack
\* has no entry to remove and the call fails
flux_msg_route_delete_last(route) ==
    IF route = <<>>
    THEN [rc |-> -1, route |-> route]
    ELSE [rc |-> 0, route |-> Below(route)]

(***************************************************************************)
(* module_sendmsg as a function of p->muted, the message and the step that *)
(* fails in this call (fault: "none", "decode", "copy", "route", "send"). *)
(* The result is the return code, errno as the call leaves it (0: not      *)
(* set) and the message put on the channel (NoMsg: none).                  *)
(***************************************************************************)
SendFaults == {"none", "decode", "copy", "route", "send"}

SendResult(rc, errno, out) == [rc |-> rc, errno |-> errno, out |-> out]

\* mutant: the two tests joined by "and" instead of "or"
sendmsg_muted_refuses_and(type, topic) ==
    type # FLUX_MSGTYPE_RESPONSE /\ topic # StatusTopic

\* the muted test: TRUE when a muted module refuses the message
sendmsg_muted_refuses(type, topic) ==
    type # FLUX_MSGTYPE_RESPONSE \/ topic # StatusTopic

\* mutant: the module's own uuid is pushed instead of the parent's
sendmsg_request_uuid(msg, fault) ==
    IF fault \in {"copy", "route", "send"} THEN SendResult(-1, ENOMEM, NoMsg)
    ELSE SendResult(0, 0,
             [msg EXCEPT !.route = flux_msg_route_push(msg.route, uuid_str),
                         !.orig = <<msg.route, msg.topic>>])

\* mutant: a failed route push is ignored and the copy is sent as it is
sendmsg_request_ignores(msg, fault) ==
    IF fault = "copy" THEN SendResult(-1, ENOMEM, NoMsg)
    ELSE IF fault = "route" THEN SendResult(0, 0, msg)
    ELSE IF fault = "send" THEN SendResult(-1, EIO, NoMsg)
    ELSE SendResult(0, 0,
             [msg EXCEPT !.route = flux_msg_route_push(msg.route, parent_uuid_str),
                         !.orig = <<msg.route, msg.topic>>])

\* case FLUX_MSGTYPE_REQUEST: copy, push parent_uuid_str, send
sendmsg_request(msg, fault) ==
    IF fault = "copy" THEN SendResult(-1, ENOMEM, NoMsg)
    ELSE IF fault = "route" THEN SendResult(-1, ENOMEM, NoMsg)
    ELSE IF fault = "send" THEN SendResult(-1, EIO, NoMsg)
    ELSE SendResult(0, 0,
             [msg EXCEPT !.route = flux_msg_route_push(msg.route, parent_uuid_str),
                         !.orig = <<msg.route, msg.topic>>])

\* mutant: the copy is sent with its route stack as it came
sendmsg_response_nopop(msg, fault) ==
    IF fault \in {"copy", "route", "send"} THEN SendResult(-1, ENOMEM, NoMsg)
    ELSE SendResult(0, 0, msg)

\* case FLUX_MSGTYPE_RESPONSE: copy, delete the last route entry, send
sendmsg_response(msg, fault) ==
    LET del == flux_msg_route_delete_last(msg.route)
    IN  IF fault = "copy" THEN SendResult(-1, ENOMEM, NoMsg)
        ELSE IF fault = "route" \/ del.rc < 0 THEN SendResult(-1, EPROTO, NoMsg)
        ELSE IF fault = "send" THEN SendResult(-1, EIO, NoMsg)
        ELSE SendResult(0, 0, [msg EXCEPT !.route = del.route])

\* default: send the message itself
sendmsg_default(msg, fault) ==
    IF fault = "send" THEN SendResult(-1, EIO, NoMsg)
    ELSE SendResult(0, 0, msg)

\* flux_msg_copy (msg, payload): the copy has the payload only if asked for
flux_msg_copy(msg, payload) ==
    IF payload THEN msg ELSE [msg EXCEPT !.payload = <<>>]

(* The message objects of a module_sendmsg call: msg, the caller's message, *)
(* cpy, the duplicate the call makes (NoMsg: none), and sent, the object    *)
(* handed to zmqutil_msg_send ("msg", "cpy", or "none").                    *)
SendObjs(msg, cpy, sent) == [msg |-> msg, cpy |-> cpy, sent |-> sent]

\* mutant: the duplicate shares its route stack with the caller's message
sendmsg_rewrite_shared(objs, route) ==
    [objs EXCEPT !.cpy.route = route, !.msg.route = route]

\* flux_msg_route_push (cpy, ...), flux_msg_route_delete_last (cpy): the
\* route stack of the duplicate becomes route
sendmsg_rewrite(objs, route) == [objs EXCEPT !.cpy.route = route]

\* switch (type), object by object
sendmsg_switch(msg, fault) ==
    LET start == SendObjs(msg, NoMsg, "none")
        copied == [start EXCEPT !.cpy = flux_msg_copy(msg, TRUE)]
        del == flux_msg_route_delete_last(copied.cpy.route)
        routed == IF msg.type = FLUX_MSGTYPE_REQUEST
                  THEN sendmsg_rewrite(copied,
                           flux_msg_route_push(copied.cpy.route, parent_uuid_str))
                  ELSE sendmsg_rewrite(copied, del.route)
    IN  IF msg.type \in {FLUX_MSGTYPE_REQUEST, FLUX_MSGTYPE_RESPONSE}
        THEN IF fault = "copy" THEN start
             ELSE IF fault = "route" THEN copied
             ELSE IF msg.type = FLUX_MSGTYPE_RESPONSE /\ del.rc < 0 THEN copied
             ELSE IF fault = "send" THEN routed
             ELSE [routed EXCEPT !.sent = "cpy"]
        ELSE IF fault = "send" THEN start
             ELSE [start EXCEPT !.sent = "msg"]

\* the objects as module_sendmsg leaves them
sendmsg_objects(p_muted, msg, fault) ==
    IF msg = NoMsg \/ fault = "decode"
       \/ (p_muted /\ sendmsg_muted_refuses(msg.type, msg.topic))
    THEN SendObjs(msg, NoMsg, "none")
    ELSE sendmsg_switch(msg, fault)

module_sendmsg(p_muted, msg, fault) ==
    IF msg = NoMsg THEN SendResult(0, 0, NoMsg)
    ELSE IF fault = "decode" THEN SendResult(-1, EPROTO, NoMsg)
    ELSE IF p_muted /\ sendmsg_muted_refuses(msg.type, msg.topic)
         THEN SendResult(-1, ENOSYS, NoMsg)
    ELSE IF msg.type = FLUX_MSGTYPE_REQUEST THEN sendmsg_request(msg, fault)
    ELSE IF msg.type = FLUX_MSGTYPE_RESPONSE THEN sendmsg_response(msg, fault)
    ELSE sendmsg_default(msg, fault)

(***************************************************************************)
(* module_recvmsg as a function of the message at the head of the channel  *)
(* and the step that fails in this call ("none", "recv", "decode",        *)
(* "route", "cred").  The result says whether the message was taken off   *)
(* the channel, whether the assertion on p->cred failed, and the message   *)
(* returned (NoMsg: NULL).                                                 *)
(***************************************************************************)
RecvFaults == {"none", "recv", "decode", "route", "cred"}

RecvResult(taken, msg) == [taken |-> taken, asserted |-> FALSE, msg |-> msg]

\* mutant: the case label of EVENT is missing, so an event takes the default
recvmsg_route_noevent(raw, fault) ==
    IF raw.type = FLUX_MSGTYPE_RESPONSE
    THEN IF fault = "route"
         THEN [rc |-> -1, route |-> raw.route]
         ELSE flux_msg_route_delete_last(raw.route)
    ELSE IF raw.type = FLUX_MSGTYPE_REQUEST
    THEN IF fault = "route"
         THEN [rc |-> -1, route |-> raw.route]
         ELSE [rc |-> 0, route |-> flux_msg_route_push(raw.route, uuid_str)]
    ELSE [rc |-> 0, route |-> raw.route]

\* mutant: a response keeps its last route entry
recvmsg_route_nopop(raw, fault) ==
    IF fault = "route" /\ raw.type # FLUX_MSGTYPE_CONTROL
    THEN [rc |-> -1, route |-> raw.route]
    ELSE IF raw.type \in {FLUX_MSGTYPE_REQUEST, FLUX_MSGTYPE_EVENT}
    THEN [rc |-> 0, route |-> flux_msg_route_push(raw.route, uuid_str)]
    ELSE [rc |-> 0, route |-> raw.route]

\* switch (type): the route stack the message leaves with; rc < 0 on failure
recvmsg_route(raw, fault) ==
    IF raw.type = FLUX_MSGTYPE_RESPONSE
    THEN IF fault = "route"
         THEN [rc |-> -1, route |-> raw.route]
         ELSE flux_msg_route_delete_last(raw.route)
    ELSE IF raw.type \in {FLUX_MSGTYPE_REQUEST, FLUX_MSGTYPE_EVENT}
    THEN IF fault = "route"
         THEN [rc |-> -1, route |-> raw.route]
         ELSE [rc |-> 0, route |-> flux_msg_route_push(raw.route, uuid_str)]
    ELSE [rc |-> 0, route |-> raw.route]

\* mutant: the channel's userid replaces whatever userid the message has
recvmsg_cred_userid(userid, rolemask) ==
    [userid |-> p_cred.userid,
     rolemask |-> IF rolemask = FLUX_ROLE_NONE THEN p_cred.rolemask ELSE rolemask]

\* mutant: an empty rolemask is left empty
recvmsg_cred_norole(userid, rolemask) ==
    [userid |-> IF userid = FLUX_USERID_UNKNOWN THEN p_cred.userid ELSE userid,
     rolemask |-> rolemask]

\* the credential the message leaves with
recvmsg_cred(userid, rolemask) ==
    [userid |-> IF userid = FLUX_USERID_UNKNOWN THEN p_cred.userid ELSE userid,
     rolemask |-> IF rolemask = FLUX_ROLE_NONE THEN p_cred.rolemask ELSE rolemask]

module_recvmsg(raw, fault) ==
    IF fault = "recv" THEN RecvResult(FALSE, NoMsg)
    ELSE IF fault = "decode" THEN RecvResult(TRUE, NoMsg)
    ELSE LET r == recvmsg_route(raw, fault)
             c == recvmsg_cred(raw.userid, raw.rolemask)
         IN  IF r.rc < 0 THEN RecvResult(TRUE, NoMsg)
             ELSE IF ~HasOwner(p_cred.rolemask)
                  THEN [taken |-> TRUE, asserted |-> TRUE, msg |-> NoMsg]
             ELSE IF fault = "cred" THEN RecvResult(TRUE, NoMsg)
             ELSE RecvResult(TRUE, [raw EXCEPT !.route = r.route,
                                               !.userid = c.userid,
                                               !.rolemask = c.rolemask])

\* mutant: the assertion on p->status is missing
module_set_status_unchecked(p_status, new_status) ==
    IF new_status = FLUX_MODSTATE_INIT
    THEN [asserted |-> TRUE, status |-> p_status]
    ELSE [asserted |-> FALSE, status |-> new_status]

(***************************************************************************)
(* module_set_status as a function of p->status and new_status: the two    *)
(* assertions, then the assignment.                                        *)
(***************************************************************************)
module_set_status(p_status, new_status) ==
    IF new_status = FLUX_MODSTATE_INIT \/ p_status = FLUX_MODSTATE_EXITED
    THEN [asserted |-> TRUE, status |-> p_status]
    ELSE [asserted |-> FALSE, status |-> new_status]

\* mutant: prev_status is read after p->status has been assigned
status_cb_invoke_late(p_status_cb, prev_status, p_status) ==
    IF p_status_cb THEN <<[prev |-> p_status, cur |-> p_status]>> ELSE <<>>

\* if (p->status_cb) p->status_cb (p, prev_status, p->status_arg): the calls
\* made, each with the previous status it is passed and the p->status it finds
status_cb_invoke(p_status_cb, prev_status, p_status) ==
    IF p_status_cb THEN <<[prev |-> prev_status, cur |-> p_status]>> ELSE <<>>

\* the record of one module_set_status call
SetCall(p_status_cb, p_status, new_status) ==
    LET r == module_set_status(p_status, new_status)
    IN  [called |-> TRUE, prev |-> p_status, new |-> new_status,
         asserted |-> r.asserted, cbset |-> p_status_cb,
         cb |-> IF r.asserted THEN <<>>
                ELSE status_cb_invoke(p_status_cb, p_status, r.status)]

\* mutant: the thread is joined and the status is left as it is
destroy_steps_noforce(started, p_status) ==
    (IF started THEN <<"pthread_join">> ELSE <<>>)
    \o <<"disconnect_destroy", "flux_watcher_stop", "flux_watcher_destroy",
         "zsock_destroy", "free">>

\* mutant: the watcher is stopped and destroyed before the thread is joined
destroy_steps_stopfirst(started, p_status) ==
    <<"flux_watcher_stop", "flux_watcher_destroy">>
    \o (IF started
        THEN <<"pthread_join">>
             \o (IF p_status # FLUX_MODSTATE_EXITED
                 THEN <<"module_set_status">> ELSE <<>>)
        ELSE <<>>)
    \o <<"disconnect_destroy", "zsock_destroy", "free">>

\* mutant: EXITED is forced whatever the status is after the join
destroy_steps_forceall(started, p_status) ==
    (IF started THEN <<"pthread_join", "module_set_status">> ELSE <<>>)
    \o <<"disconnect_destroy", "flux_watcher_stop", "flux_watcher_destroy",
         "zsock_destroy", "free">>

\* mutant: the watcher is left as it is
destroy_steps_nostop(started, p_status) ==
    (IF started
     THEN <<"pthread_join">>
          \o (IF p_status # FLUX_MODSTATE_EXITED
              THEN <<"module_set_status">> ELSE <<>>)
     ELSE <<>>)
    \o <<"disconnect_destroy", "zsock_destroy", "free">>

\* module_destroy: what it does to the record, in order, started being p->t
\* != 0 and p_status being p->status when pthread_join has returned
destroy_steps(started, p_status) ==
    (IF started
     THEN <<"pthread_join">>
          \o (IF p_status # FLUX_MODSTATE_EXITED
              THEN <<"module_set_status">> ELSE <<>>)
     ELSE <<>>)
    \o <<"disconnect_destroy", "flux_watcher_stop", "flux_watcher_destroy",
         "zsock_destroy", "free">>

\* the position of step in steps, 0 when it is not one of them
StepIndex(steps, step) ==
    LET at == {i \in 1..Len(steps) : steps[i] = step}
    IN  IF at = {} THEN 0 ELSE CHOOSE i \in at : \A j \in at : i <= j

(***************************************************************************)
(* The proxy service table (servhash.c): its entries and its operations    *)
(* as functions of the table.                                              *)
(***************************************************************************)
\* service.add and service.remove requests the table sends in a run
MaxReq == 3

ServNames == <<"a", "b">>
ServUuids == {"u1", "u2"}
\* the steps of servhash_add that can fail ("null": an argument is NULL);
\* servhash_remove has them all but "nomem"
ServFaults == {"none", "null", "nomem", "rpc", "then"}

\* the service.add or service.remove request of client uuid for name, as the
\* router hands it to the table
ServMsg(op, name, uuid) == [op |-> op, name |-> name, uuid |-> uuid]
NoServMsg == ServMsg("", "", "")

\* struct servhash_entry; present is FALSE where the table has no entry
Entry(uuid, live, f_add, add_ready, f_remove) ==
    [present |-> TRUE, uuid |-> uuid, live |-> live, f_add |-> f_add,
     add_ready |-> add_ready, f_remove |-> f_remove,
     add_request |-> NoServMsg, remove_request |-> NoServMsg]
NoEntry ==
    [present |-> FALSE, uuid |-> "", live |-> FALSE, f_add |-> 0,
     add_ready |-> FALSE, f_remove |-> 0,
     add_request |-> NoServMsg, remove_request |-> NoServMsg]

\* zhashx_new: the table with no entry
NoServices == [i \in 1..Len(ServNames) |-> NoEntry]

\* the place of name in the table
Slot(name) == StepIndex(ServNames, name)

\* zhashx_lookup
zhashx_lookup(table, name) == table[Slot(name)]

\* a request to the upstream broker: flux_service_register (op "add") or
\* flux_service_unregister (op "remove"); id is its matchtag
Request(id, op, name) == [id |-> id, op |-> op, name |-> name]

needs_unregister_addonly(entry) ==
    ~entry.live /\ entry.f_add # 0 /\ ~entry.add_ready

\* mutant: every entry has an unregister sent as it is destroyed
needs_unregister_always(entry) ==
    TRUE

needs_unregister(entry) ==
    \/ ~entry.live /\ entry.f_add # 0 /\ ~entry.add_ready
    \/ entry.live /\ entry.f_remove = 0

\* servhash_entry_destroy: the requests it sends, id being the next matchtag
servhash_entry_destroy(entry, name, id) ==
    IF entry.present /\ needs_unregister(entry)
    THEN <<Request(id, "remove", name)>>
    ELSE <<>>

\* zhashx_delete of the entries of table that doomed selects, in the order of
\* the table: the requests their destructors send
RECURSIVE DeleteFrom(_, _, _, _)
DeleteFrom(i, table, doomed, id) ==
    IF i > Len(table) THEN <<>>
    ELSE LET sent == IF doomed[i]
                     THEN servhash_entry_destroy(table[i], ServNames[i], id)
                     ELSE <<>>
         IN  sent \o DeleteFrom(i + 1, table, doomed, id + Len(sent))

\* the table without the entries doomed selects
Deleted(table, doomed) ==
    [i \in 1..Len(table) |-> IF doomed[i] THEN NoEntry ELSE table[i]]

\* the selection of the one entry of name
Only(name) == [i \in 1..Len(ServNames) |-> ServNames[i] = name]

\* responds: the calls of sh->respond_cb made, oldest first
ServResult(rc, errno, table, sent) ==
    [rc |-> rc, errno |-> errno, services |-> table, sent |-> sent,
     responds |-> <<>>]

\* one call of sh->respond_cb (msg, uuid, errnum, arg)
Respond(msg, uuid, errnum) == [msg |-> msg, uuid |-> uuid, errnum |-> errnum]

servhash_add_overwrite(table, name, uuid, msg, fault, id) ==
    ServResult(0, 0,
               [table EXCEPT ![Slot(name)] =
                    [Entry(uuid, FALSE, id, FALSE, 0) EXCEPT !.add_request = msg]],
               <<Request(id, "add", name)>>)

\* servhash_add: fault is the step that fails, if any ("null" for a NULL
\* argument); id is the next matchtag
servhash_add(table, name, uuid, msg, fault, id) ==
    LET entry == [Entry(uuid, FALSE, id, FALSE, 0) EXCEPT !.add_request = msg]
    IN  IF fault = "null" THEN ServResult(-1, EINVAL, table, <<>>)
        ELSE IF zhashx_lookup(table, name).present
        THEN ServResult(-1, EEXIST, table, <<>>)
        ELSE IF fault = "nomem" THEN ServResult(-1, ENOMEM, table, <<>>)
        ELSE IF fault = "rpc" THEN ServResult(-1, ELIB, table, <<>>)
        ELSE IF fault = "then"
        THEN ServResult(-1, ELIB, table,
                        <<Request(id, "add", name)>>
                            \o servhash_entry_destroy(entry, name, id + 1))
        ELSE ServResult(0, 0, [table EXCEPT ![Slot(name)] = entry],
                        <<Request(id, "add", name)>>)

servhash_remove_anyuuid(table, name, uuid, msg, fault, id) ==
    LET entry == zhashx_lookup(table, name)
    IN  IF ~entry.present THEN ServResult(-1, ENOENT, table, <<>>)
        ELSE ServResult(0, 0, [table EXCEPT ![Slot(name)].f_remove = id,
                                            ![Slot(name)].remove_request = msg],
                        <<Request(id, "remove", name)>>)

\* servhash_remove: entry->remove_request is set before the request is sent
servhash_remove(table, name, uuid, msg, fault, id) ==
    LET entry == zhashx_lookup(table, name)
        kept == [table EXCEPT ![Slot(name)].remove_request = msg]
    IN  IF fault = "null" THEN ServResult(-1, EINVAL, table, <<>>)
        ELSE IF ~entry.present \/ entry.uuid # uuid \/ entry.f_remove # 0
        THEN ServResult(-1, ENOENT, table, <<>>)
        ELSE IF fault = "rpc" THEN ServResult(-1, ELIB, kept, <<>>)
        ELSE IF fault = "then"
        THEN ServResult(-1, ELIB, Deleted(table, Only(name)),
                        <<Request(id, "remove", name)>>
                            \o servhash_entry_destroy([entry EXCEPT !.f_remove = id],
                                                      name, id + 1))
        ELSE ServResult(0, 0, [kept EXCEPT ![Slot(name)].f_remove = id],
                        <<Request(id, "remove", name)>>)

\* mutant: only the live entries of uuid are deleted
servhash_disconnect_liveonly(table, uuid, id) ==
    LET doomed == [i \in 1..Len(table) |->
                      table[i].present /\ table[i].uuid = uuid /\ table[i].live]
    IN  ServResult(0, 0, Deleted(table, doomed), DeleteFrom(1, table, doomed, id))

\* servhash_disconnect: the entries uuid owns are deleted
servhash_disconnect(table, uuid, id) ==
    LET doomed == [i \in 1..Len(table) |-> table[i].present /\ table[i].uuid = uuid]
    IN  ServResult(0, 0, Deleted(table, doomed), DeleteFrom(1, table, doomed, id))

\* servhash_destroy: zhashx_destroy deletes every entry
servhash_destroy(table, id) ==
    LET doomed == [i \in 1..Len(table) |-> table[i].present]
    IN  ServResult(0, 0, Deleted(table, doomed), DeleteFrom(1, table, doomed, id))

\* a response of the upstream broker
Reply(id, errnum) == [id |-> id, errnum |-> errnum]

\* the slots whose future f_add (f_remove) is the one with matchtag id
AddFuture(table, id) ==
    {i \in 1..Len(table) : table[i].present /\ table[i].f_add = id}
RemoveFuture(table, id) ==
    {i \in 1..Len(table) : table[i].present /\ table[i].f_remove = id}

\* mutant: the callback hears of a successful add only
add_continuation_quiet(table, i, errnum, cb, id) ==
    LET entry == [table[i] EXCEPT !.add_ready = TRUE,
                                  !.live = IF errnum = 0 THEN TRUE ELSE @]
    IN  IF errnum = 0
        THEN [ServResult(0, 0, [table EXCEPT ![i] = entry], <<>>)
                 EXCEPT !.responds = IF cb
                                     THEN <<Respond(entry.add_request, entry.uuid, 0)>>
                                     ELSE <<>>]
        ELSE ServResult(0, errnum, [table EXCEPT ![i] = NoEntry],
                        servhash_entry_destroy(entry, ServNames[i], id))

\* add_continuation on the entry of slot i; cb: sh->respond_cb is set
add_continuation(table, i, errnum, cb, id) ==
    LET entry == [table[i] EXCEPT !.add_ready = TRUE,
                                  !.live = IF errnum = 0 THEN TRUE ELSE @]
        calls == IF cb THEN <<Respond(entry.add_request, entry.uuid, errnum)>>
                 ELSE <<>>
    IN  IF errnum = 0
        THEN [ServResult(0, 0, [table EXCEPT ![i] = entry], <<>>)
                 EXCEPT !.responds = calls]
        ELSE [ServResult(0, errnum, [table EXCEPT ![i] = NoEntry],
                         servhash_entry_destroy(entry, ServNames[i], id))
                 EXCEPT !.responds = calls]

\* mutant: an entry whose remove failed upstream stays in the table
remove_continuation_keeps(table, i, errnum, cb, id) ==
    LET entry == IF errnum = 0 THEN [table[i] EXCEPT !.live = FALSE] ELSE table[i]
        calls == IF cb THEN <<Respond(entry.remove_request, entry.uuid, errnum)>>
                 ELSE <<>>
    IN  IF errnum = 0
        THEN [ServResult(0, errnum, [table EXCEPT ![i] = NoEntry],
                         servhash_entry_destroy(entry, ServNames[i], id))
                 EXCEPT !.responds = calls]
        ELSE [ServResult(0, errnum, table, <<>>) EXCEPT !.responds = calls]

\* remove_continuation on the entry of slot i; cb: sh->respond_cb is set
remove_continuation(table, i, errnum, cb, id) ==
    LET entry == IF errnum = 0 THEN [table[i] EXCEPT !.live = FALSE] ELSE table[i]
        calls == IF cb THEN <<Respond(entry.remove_request, entry.uuid, errnum)>>
                 ELSE <<>>
    IN  [ServResult(0, errnum, [table EXCEPT ![i] = NoEntry],
                    servhash_entry_destroy(entry, ServNames[i], id))
            EXCEPT !.responds = calls]

(***************************************************************************)
(* The disconnect tracker of a record (p->disconnect) and                  *)
(* module_disconnect_arm.  The tracker holds the callback it was created   *)
(* with and the (sender, matchtag) tuples recorded in it, oldest first.    *)
(***************************************************************************)
NoTracker == [made |-> FALSE, cb |-> "", armed |-> <<>>]

\* the steps of module_disconnect_arm that can fail
ArmFaults == {"none", "create", "arm"}

\* the sender of msg: the first hop of its route stack
Sender(msg) == IF msg.route = <<>> THEN "" ELSE msg.route[1]

\* disconnect_create (cb, arg)
disconnect_create(cb) == [made |-> TRUE, cb |-> cb, armed |-> <<>>]

\* disconnect_arm (d, msg): the tuple of msg is recorded, once
disconnect_arm(d, msg) ==
    LET tuple == <<Sender(msg), msg.matchtag>>
    IN  IF \E i \in 1..Len(d.armed) : d.armed[i] = tuple
        THEN d
        ELSE [d EXCEPT !.armed = Append(@, tuple)]

\* disconnect_destroy (d): the disconnects handed to the callback, in order
disconnect_destroy(d) ==
    IF ~d.made THEN <<>>
    ELSE [i \in 1..Len(d.armed) |->
             [cb |-> d.cb, sender |-> d.armed[i][1], matchtag |-> d.armed[i][2]]]

\* mutant: a tracker is created at every call
module_disconnect_arm_recreate(p_disconnect, msg, cb, fault) ==
    IF fault = "create" THEN [rc |-> -1, disconnect |-> p_disconnect]
    ELSE IF fault = "arm" THEN [rc |-> -1, disconnect |-> disconnect_create(cb)]
    ELSE [rc |-> 0, disconnect |-> disconnect_arm(disconnect_create(cb), msg)]

\* module_disconnect_arm (p, msg, cb, arg): the return code and p->disconnect
\* as the call leaves it
module_disconnect_arm(p_disconnect, msg, cb, fault) ==
    LET d == IF p_disconnect.made THEN p_disconnect
             ELSE IF fault = "create" THEN NoTracker
             ELSE disconnect_create(cb)
    IN  IF ~d.made THEN [rc |-> -1, disconnect |-> p_disconnect]
        ELSE IF fault = "arm" THEN [rc |-> -1, disconnect |-> d]
        ELSE [rc |-> 0, disconnect |-> disconnect_arm(d, msg)]

NoArm == [called |-> FALSE, msg |-> NoMsg, cb |-> "", fault |-> "none", rc |-> 0]

(***************************************************************************)
(* State.                                                                  *)
(***************************************************************************)
VARIABLES
    status,         \* p->status
    muted,          \* p->muted
    errnum,         \* p->errnum
    t,              \* p->t: "none", "running", "joined"
    watcher,        \* p->broker_w: "stopped", "started", "destroyed"
    alive,          \* the record has not been freed
    bpc,            \* the broker thread: "idle", or "join" inside module_destroy
    aborted,        \* an assertion failed and the process is gone
    pc,             \* the module thread's position in module_thread
    h,              \* p->h: "null" (never opened), "open", "closed"
    mod_main_errno, \* module_thread's local of that name
    fin_rc,         \* what module_finalizing returned: 1 not called yet, 0, -1
    toMod,          \* the channel, broker to module
    toBroker,       \* the channel, module to broker
    lastSend,       \* the last module_sendmsg call: arguments, state and result
    lastRecv,       \* the last module_recvmsg call: message pulled and result
    lastDrain,      \* the last request the drain step took and its answer, and
                    \* the turns of the drain loop so far
    acked,          \* history: the broker has answered the FINALIZING report
    nsend,          \* history: module_sendmsg calls the broker made on its own
    nmodsend,       \* history: messages the entry point sent on its own
    status_cb,      \* p->status_cb is set
    rmmod,          \* p->rmmod: the zlist, its head first
    insmod,         \* p->insmod: a message, or NoMsg for NULL
    subs,           \* p->subs: the zlist of topic strings, its head first
    pushed,         \* history: the messages pushed and not yet popped, oldest first
    lastSub,        \* the last module_subscribe / module_unsubscribe call
    lastSet,        \* the last module_set_status call and the callbacks it made
    lastPop,        \* the last module_pop_rmmod / module_pop_insmod call
    lastCast,       \* the last module_event_cast call
    dlog,           \* what module_destroy did to the record, in order
    mainret,        \* history: what the entry point returned, and errno then
    cancel_req,     \* a cancellation request is pending on the module thread
    lastApi,        \* the last call of module_create, module_cancel or an
                    \* entry given a NULL argument: arguments and result
    services,       \* sh->services: name => servhash_entry
    upstream,       \* requests on their way to the upstream broker
    replies,        \* responses on their way back from the upstream broker
    up_services,    \* the names the upstream broker has registered for sh->h
    nreq,           \* history: requests sent upstream so far
    lastServ,       \* the last servhash call: arguments, state and result
    sh_live,        \* the servhash has not been destroyed
    respond_cb,     \* sh->respond_cb: a respond callback is set
    disconnect,     \* p->disconnect: the tracker, NoTracker for NULL
    disc_sent,      \* the disconnects module_destroy handed to the callback
    lastArm         \* the last module_disconnect_arm call

recVars == <<status, muted, errnum, t, watcher, alive, bpc, aborted>>
thrVars == <<pc, h, mod_main_errno, fin_rc>>
chanVars == <<toMod, toBroker>>
histVars == <<lastSend, lastRecv, lastDrain, acked, nsend, nmodsend>>
cfgVars == <<rmmod, insmod, subs, pushed, lastPop, lastSub, lastCast>>
admVars == <<status_cb, cfgVars>>
servVars == <<services, upstream, replies, up_services, nreq, lastServ, sh_live,
             respond_cb>>
discVars == <<disconnect, disc_sent, lastArm>>
extVars == <<cancel_req, lastApi, servVars, discVars>>
auxVars == <<admVars, lastSet, dlog, mainret, extVars>>
vars == <<recVars, thrVars, chanVars, histVars, auxVars>>

NoSend == [msg |-> NoMsg, fault |-> "none", muted |-> FALSE, h |-> "null",
           late |-> FALSE, called |-> FALSE, rc |-> 0, errno |-> 0, out |-> NoMsg,
           objs |-> SendObjs(NoMsg, NoMsg, "none")]
NoRecv == [raw |-> NoMsg, fault |-> "none", called |-> FALSE, taken |-> FALSE,
           msg |-> NoMsg]
NoDrain == [req |-> NoMsg, resp |-> NoMsg, turns |-> 0, failed |-> 0]
NoSet == [called |-> FALSE, prev |-> FLUX_MODSTATE_INIT, new |-> FLUX_MODSTATE_INIT,
          asserted |-> FALSE, cbset |-> FALSE, cb |-> <<>>]
NoPush == [rmmod |-> <<>>, insmod |-> <<>>]
NoPop == [op |-> "none", msg |-> NoMsg, order |-> <<>>]
NoSub == [op |-> "none", topic |-> "", fault |-> "none", rc |-> 0, before |-> <<>>]
NoCast == [called |-> FALSE, msg |-> NoMsg, fault |-> "none", muted |-> FALSE,
           rc |-> 0, out |-> NoMsg]
NoRet == [returned |-> FALSE, rc |-> 0, errno |-> 0]
NoApi == [op |-> "none", args |-> <<>>, rc |-> 0, errno |-> 0, crashed |-> FALSE,
          steps |-> <<>>, out |-> ""]
NoServ == [op |-> "none", name |-> "", uuid |-> "", fault |-> "none", rc |-> 0,
           errno |-> 0, before |-> <<>>, sent |-> <<>>, responds |-> <<>>]

\* the record of one module_sendmsg call made in the current state, p->muted
\* being p_muted
SendCall(p_muted, msg, fault) ==
    LET r == module_sendmsg(p_muted, msg, fault)
    IN  [msg |-> msg, fault |-> fault, muted |-> p_muted, h |-> h, late |-> acked,
         called |-> TRUE, rc |-> r.rc, errno |-> r.errno, out |-> r.out,
         objs |-> sendmsg_objects(p_muted, msg, fault)]

\* the record of one module_recvmsg call made in the current state
RecvCall(raw, fault) ==
    LET r == module_recvmsg(raw, fault)
    IN  [raw |-> raw, fault |-> fault, called |-> TRUE, taken |-> r.taken,
         msg |-> r.msg]

\* the channel after a module_sendmsg call
Transmit(queue, call) ==
    IF call.out = NoMsg THEN queue ELSE Append(queue, call.out)

\* module_create: the record as it is returned
Init ==
    /\ status = FLUX_MODSTATE_INIT
    /\ muted = FALSE
    /\ errnum = 0
    /\ t = "none"
    /\ watcher = "stopped"
    /\ alive = TRUE
    /\ bpc = "idle"
    /\ aborted = FALSE
    /\ pc = "none"
    /\ h = "null"
    /\ mod_main_errno = 0
    /\ fin_rc = 1
    /\ toMod = <<>>
    /\ toBroker = <<>>
    /\ lastSend = NoSend
    /\ lastRecv = NoRecv
    /\ lastDrain = NoDrain
    /\ acked = FALSE
    /\ nsend = 0
    /\ nmodsend = 0
    /\ status_cb = FALSE
    /\ rmmod = <<>>
    /\ insmod = NoMsg
    /\ subs = <<>>
    /\ lastSet = NoSet
    /\ pushed = NoPush
    /\ lastPop = NoPop
    /\ lastSub = NoSub
    /\ lastCast = NoCast
    /\ dlog = <<>>
    /\ mainret = NoRet
    /\ cancel_req = FALSE
    /\ lastApi = NoApi
    /\ services = NoServices
    /\ upstream = <<>>
    /\ replies = <<>>
    /\ up_services = {}
    /\ nreq = 0
    /\ lastServ = NoServ
    /\ sh_live = TRUE
    /\ respond_cb = FALSE
    /\ disconnect = NoTracker
    /\ disc_sent = <<>>
    /\ lastArm = NoArm

\* the broker thread may call into the record
BrokerFree == alive /\ ~aborted /\ bpc = "idle"

(***************************************************************************)
(* SpecApi: the host API called in any order.                              *)
(***************************************************************************)
\* what the broker hands to module_sendmsg
ApiRoutes == {<<>>, <<ClientId>>, <<ClientId, uuid_str>>}
ApiMsgs ==
    {Msg(ty, tp, r, OwnerUid, FLUX_ROLE_OWNER, FLUX_MATCHTAG_NONE, 0, <<>>) :
        ty \in MsgTypes, tp \in Topics, r \in ApiRoutes}
    \cup {Msg(ty, "x.y", <<ClientId>>, OwnerUid, FLUX_ROLE_OWNER,
              FLUX_MATCHTAG_NONE, 0, <<1>>) : ty \in MsgTypes}

api_set_status(new_status) ==
    /\ BrokerFree
    /\ LET r == module_set_status(status, new_status)
       IN  /\ status' = r.status
           /\ aborted' = r.asserted
    /\ UNCHANGED <<muted, errnum, t, watcher, alive, bpc>>
    /\ UNCHANGED <<thrVars, chanVars, histVars>>
    /\ lastSet' = SetCall(status_cb, status, new_status)
    /\ UNCHANGED <<admVars, dlog, mainret, extVars>>

module_mute ==
    /\ BrokerFree
    /\ muted' = TRUE
    /\ UNCHANGED <<status, errnum, t, watcher, alive, bpc, aborted>>
    /\ UNCHANGED <<thrVars, chanVars, histVars>>
    /\ UNCHANGED auxVars

api_sendmsg(msg, fault) ==
    /\ BrokerFree
    /\ Len(toMod) < MaxQueue
    /\ lastSend' = SendCall(muted, msg, fault)
    /\ toMod' = Transmit(toMod, lastSend')
    /\ UNCHANGED <<recVars, thrVars, toBroker>>
    /\ UNCHANGED <<lastRecv, lastDrain, acked, nsend, nmodsend>>
    /\ UNCHANGED auxVars

\* the module end takes the message at the head of the channel
api_modrecv ==
    /\ ~aborted
    /\ toMod # <<>>
    /\ toMod' = Tail(toMod)
    /\ UNCHANGED <<recVars, thrVars, toBroker, histVars>>
    /\ UNCHANGED auxVars

NextApi ==
    \/ module_mute
    \/ \E m \in ApiMsgs \cup {NoMsg}, f \in SendFaults : api_sendmsg(m, f)
    \/ api_modrecv

SpecApi == Init /\ [][NextApi]_vars

(***************************************************************************)
(* SpecRecv: the module puts any message on the channel and the broker     *)
(* pulls it with module_recvmsg.                                           *)
(***************************************************************************)
\* what a module may put on the channel
ModRoutes == {<<>>, <<ClientId>>, <<ClientId, parent_uuid_str>>}
ModUserids == {FLUX_USERID_UNKNOWN, OwnerUid, GuestUid}
ModRolemasks == {FLUX_ROLE_NONE, FLUX_ROLE_USER, FLUX_ROLE_OWNER + FLUX_ROLE_LOCAL}
ModMsgs ==
    {Msg(ty, "x.y", r, u, m, FLUX_MATCHTAG_NONE, 0, <<>>) :
        ty \in MsgTypes, r \in ModRoutes, u \in ModUserids, m \in ModRolemasks}

\* the module sends; the broker is done with the result of its last call
recv_modsend(msg) ==
    /\ ~aborted
    /\ Len(toBroker) < MaxQueue
    /\ toBroker' = Append(toBroker, msg)
    /\ lastRecv' = NoRecv
    /\ UNCHANGED <<recVars, thrVars, toMod>>
    /\ UNCHANGED <<lastSend, lastDrain, acked, nsend, nmodsend>>
    /\ UNCHANGED auxVars

recv_recvmsg(fault) ==
    /\ BrokerFree
    /\ toBroker # <<>>
    /\ LET r == module_recvmsg(Head(toBroker), fault)
       IN  /\ lastRecv' = RecvCall(Head(toBroker), fault)
           /\ toBroker' = IF r.taken THEN Tail(toBroker) ELSE toBroker
           /\ aborted' = r.asserted
    /\ UNCHANGED <<status, muted, errnum, t, watcher, alive, bpc>>
    /\ UNCHANGED <<thrVars, toMod>>
    /\ UNCHANGED <<lastSend, lastDrain, acked, nsend, nmodsend>>
    /\ UNCHANGED auxVars

NextRecv ==
    \/ \E m \in ModMsgs : recv_modsend(m)
    \/ \E f \in RecvFaults : recv_recvmsg(f)

SpecRecv == Init /\ [][NextRecv]_vars

(***************************************************************************)
(* Spec: the broker thread and the module thread.                          *)
(***************************************************************************)
\* the matchtag the module's handle gives the FINALIZING status RPC
FinTag == 1

\* flux_rpc_pack (h, "broker.module-status", ...) as it leaves the module
StatusRequest(matchtag, payload) ==
    Msg(FLUX_MSGTYPE_REQUEST, StatusTopic, <<>>, FLUX_USERID_UNKNOWN,
        FLUX_ROLE_NONE, matchtag, 0, payload)

\* flux_respond / flux_respond_error: the response to req, which goes back
\* along the route stack of req
flux_respond(req, errno) ==
    [req EXCEPT !.type = FLUX_MSGTYPE_RESPONSE,
                !.userid = FLUX_USERID_UNKNOWN,
                !.rolemask = FLUX_ROLE_NONE,
                !.errnum = errno,
                !.payload = <<>>]

\* queue without its i-th message
Without(queue, i) == SubSeq(queue, 1, i - 1) \o SubSeq(queue, i + 1, Len(queue))

IsRequest(m) == m.type = FLUX_MSGTYPE_REQUEST
IsFinResponse(m) == m.type = FLUX_MSGTYPE_RESPONSE /\ m.matchtag = FinTag

\* the least index of hits, 0 if there is none
FirstOf(hits) ==
    IF hits = {} THEN 0 ELSE CHOOSE i \in hits : \A j \in hits : i <= j

\* flux_recv with FLUX_MATCH_REQUEST: the index of the first request of queue
FirstRequest(queue) ==
    FirstOf({i \in 1..Len(queue) : IsRequest(queue[i])})

\* flux_rpc_get: the index of the first response to the FINALIZING RPC
FirstFinResponse(queue) ==
    FirstOf({i \in 1..Len(queue) : IsFinResponse(queue[i])})

\* the module thread is at position at and goes to position to
Step(at, to) == ~aborted /\ pc = at /\ pc' = to

\* flux_open (uri, 0)
thread_open(ok) ==
    /\ Step("open", IF ok THEN "attr" ELSE "done")
    /\ h' = IF ok THEN "open" ELSE h
    /\ UNCHANGED <<mod_main_errno, fin_rc, recVars, chanVars, histVars>>
    /\ UNCHANGED auxVars

\* attr_cache_immutables
thread_attr(ok) ==
    /\ Step("attr", IF ok THEN "conf" ELSE "done")
    /\ UNCHANGED <<h, mod_main_errno, fin_rc, recVars, chanVars, histVars>>
    /\ UNCHANGED auxVars

\* flux_conf_copy, flux_set_conf
thread_conf(ok) ==
    /\ Step("conf", IF ok THEN "modservice" ELSE "done")
    /\ UNCHANGED <<h, mod_main_errno, fin_rc, recVars, chanVars, histVars>>
    /\ UNCHANGED auxVars

\* modservice_register: the built-in services, and the report that the
\* module is RUNNING
thread_modservice(ok) ==
    /\ Step("modservice", IF ok THEN "sigmask" ELSE "done")
    /\ toBroker' = IF ok
                   THEN Append(toBroker, StatusRequest(FLUX_MATCHTAG_NONE,
                                                       <<FLUX_MODSTATE_RUNNING>>))
                   ELSE toBroker
    /\ UNCHANGED <<h, mod_main_errno, fin_rc, recVars, toMod, histVars>>
    /\ UNCHANGED auxVars

\* sigfillset, pthread_sigmask, calloc of the argument vector
thread_sigmask(ok) ==
    /\ Step("sigmask", IF ok THEN "main" ELSE "done")
    /\ UNCHANGED <<h, mod_main_errno, fin_rc, recVars, chanVars, histVars>>
    /\ UNCHANGED auxVars

(* p->main (p->h, ac, av): what the entry point does is up to the module. *)
\* what an entry point sends on its own
MainMsgs ==
    {Msg(FLUX_MSGTYPE_REQUEST, "x.y", <<>>, FLUX_USERID_UNKNOWN, FLUX_ROLE_NONE,
         FLUX_MATCHTAG_NONE, 0, <<>>),
     Msg(FLUX_MSGTYPE_EVENT, "x.y", <<>>, GuestUid, FLUX_ROLE_USER,
         FLUX_MATCHTAG_NONE, 0, <<>>)}

\* the entry point takes the next message and, if it is a request, may answer
main_handle(answer) ==
    /\ Step("main", "main")
    /\ toMod # <<>>
    /\ toMod' = Tail(toMod)
    /\ toBroker' = IF answer /\ IsRequest(Head(toMod))
                   THEN Append(toBroker, flux_respond(Head(toMod), 0))
                   ELSE toBroker
    /\ UNCHANGED <<h, mod_main_errno, fin_rc, recVars, histVars>>
    /\ UNCHANGED auxVars

main_send(msg) ==
    /\ Step("main", "main")
    /\ nmodsend < MaxModSend
    /\ nmodsend' = nmodsend + 1
    /\ toBroker' = Append(toBroker, msg)
    /\ UNCHANGED <<h, mod_main_errno, fin_rc, recVars, toMod>>
    /\ UNCHANGED <<lastSend, lastRecv, lastDrain, acked, nsend>>
    /\ UNCHANGED auxVars

\* mutant: errno is reported as it is, zero included
main_return_raw(rc, errno) ==
    /\ Step("main", "finalizing")
    /\ mod_main_errno' = IF rc < 0 THEN errno ELSE 0
    /\ UNCHANGED <<h, fin_rc, recVars, chanVars, histVars>>
    /\ mainret' = [returned |-> TRUE, rc |-> rc, errno |-> errno]
    /\ UNCHANGED <<admVars, lastSet, dlog, extVars>>

\* the entry point returns rc with errno as it is
main_return(rc, errno) ==
    /\ Step("main", "finalizing")
    /\ mod_main_errno' = IF rc < 0
                         THEN IF errno = 0 THEN ECONNRESET ELSE errno
                         ELSE 0
    /\ UNCHANGED <<h, fin_rc, recVars, chanVars, histVars>>
    /\ mainret' = [returned |-> TRUE, rc |-> rc, errno |-> errno]
    /\ UNCHANGED <<admVars, lastSet, dlog, extVars>>

\* mutant: module_finalizing returns 0 without sending the report
finalizing_send_skip(ok) ==
    /\ Step("finalizing", "drain")
    /\ fin_rc' = 0
    /\ UNCHANGED <<h, mod_main_errno, recVars, chanVars, histVars>>
    /\ UNCHANGED auxVars

\* module_finalizing: flux_rpc_pack
finalizing_send(ok) ==
    /\ Step("finalizing", IF ok THEN "finalizing_wait" ELSE "drain")
    /\ toBroker' = IF ok
                   THEN Append(toBroker, StatusRequest(FinTag,
                                                       <<FLUX_MODSTATE_FINALIZING>>))
                   ELSE toBroker
    /\ fin_rc' = IF ok THEN fin_rc ELSE -1
    /\ UNCHANGED <<h, mod_main_errno, recVars, toMod, histVars>>
    /\ UNCHANGED auxVars

\* mutant: module_finalizing does not wait for the response
finalizing_get_nowait ==
    /\ Step("finalizing_wait", "drain")
    /\ fin_rc' = 0
    /\ UNCHANGED <<h, mod_main_errno, recVars, chanVars, histVars>>
    /\ UNCHANGED auxVars

\* module_finalizing: flux_rpc_get returns with the response
finalizing_get ==
    /\ Step("finalizing_wait", "drain")
    /\ LET i == FirstFinResponse(toMod)
       IN  /\ i # 0
           /\ toMod' = Without(toMod, i)
           /\ fin_rc' = IF toMod[i].errnum = 0 THEN 0 ELSE -1
    /\ UNCHANGED <<h, mod_main_errno, recVars, toBroker, histVars>>
    /\ UNCHANGED auxVars

\* module_finalizing: flux_rpc_get fails without a response
finalizing_get_fails ==
    /\ Step("finalizing_wait", "drain")
    /\ fin_rc' = -1
    /\ UNCHANGED <<h, mod_main_errno, recVars, chanVars, histVars>>
    /\ UNCHANGED auxVars

\* mutant: the residual request is answered with success
drain_request_success(ok) ==
    /\ Step("drain", "drain")
    /\ LET i == FirstRequest(toMod)
           resp == IF ok THEN flux_respond(toMod[i], 0) ELSE NoMsg
       IN  /\ i # 0
           /\ toMod' = Without(toMod, i)
           /\ toBroker' = IF ok THEN Append(toBroker, resp) ELSE toBroker
           /\ lastDrain' = [req |-> toMod[i], resp |-> resp,
                            turns |-> lastDrain.turns + 1,
                            failed |-> lastDrain.failed + (IF ok THEN 0 ELSE 1)]
    /\ UNCHANGED <<h, mod_main_errno, fin_rc, recVars>>
    /\ UNCHANGED <<lastSend, lastRecv, acked, nsend, nmodsend>>
    /\ UNCHANGED auxVars

\* mutant: a failure to respond ends the loop
drain_request_stop(ok) ==
    /\ Step("drain", IF ok THEN "drain" ELSE "exited")
    /\ LET i == FirstRequest(toMod)
           resp == IF ok THEN flux_respond(toMod[i], ENOSYS) ELSE NoMsg
       IN  /\ i # 0
           /\ toMod' = Without(toMod, i)
           /\ toBroker' = IF ok THEN Append(toBroker, resp) ELSE toBroker
           /\ lastDrain' = [req |-> toMod[i], resp |-> resp,
                            turns |-> lastDrain.turns + 1,
                            failed |-> lastDrain.failed + (IF ok THEN 0 ELSE 1)]
    /\ UNCHANGED <<h, mod_main_errno, fin_rc, recVars>>
    /\ UNCHANGED <<lastSend, lastRecv, acked, nsend, nmodsend>>
    /\ UNCHANGED auxVars

\* one turn of the loop over flux_recv (p->h, FLUX_MATCH_REQUEST, ...)
drain_request(ok) ==
    /\ Step("drain", "drain")
    /\ LET i == FirstRequest(toMod)
           resp == IF ok THEN flux_respond(toMod[i], ENOSYS) ELSE NoMsg
       IN  /\ i # 0
           /\ toMod' = Without(toMod, i)
           /\ toBroker' = IF ok THEN Append(toBroker, resp) ELSE toBroker
           /\ lastDrain' = [req |-> toMod[i], resp |-> resp,
                            turns |-> lastDrain.turns + 1,
                            failed |-> lastDrain.failed + (IF ok THEN 0 ELSE 1)]
    /\ UNCHANGED <<h, mod_main_errno, fin_rc, recVars>>
    /\ UNCHANGED <<lastSend, lastRecv, acked, nsend, nmodsend>>
    /\ UNCHANGED auxVars

\* mutant: the loop ends after one turn, whatever is left
drain_end_early ==
    /\ Step("drain", "exited")
    /\ UNCHANGED <<h, mod_main_errno, fin_rc, recVars, chanVars, histVars>>
    /\ UNCHANGED auxVars

\* flux_recv finds no request: the loop ends
drain_end ==
    /\ Step("drain", "exited")
    /\ FirstRequest(toMod) = 0
    /\ UNCHANGED <<h, mod_main_errno, fin_rc, recVars, chanVars, histVars>>
    /\ UNCHANGED auxVars

\* mutant: the EXITED status report is sent only after a FINALIZING report
\* that succeeded
thread_exited_iffin(ok) ==
    /\ Step("exited", "done")
    /\ toBroker' = IF ok /\ fin_rc = 0
                   THEN Append(toBroker,
                               StatusRequest(FLUX_MATCHTAG_NONE,
                                   <<FLUX_MODSTATE_EXITED, mod_main_errno>>))
                   ELSE toBroker
    /\ UNCHANGED <<h, mod_main_errno, fin_rc, recVars, toMod, histVars>>
    /\ UNCHANGED auxVars

\* the EXITED status report, with no response asked for
thread_exited(ok) ==
    /\ Step("exited", "done")
    /\ toBroker' = IF ok
                   THEN Append(toBroker,
                               StatusRequest(FLUX_MATCHTAG_NONE,
                                   <<FLUX_MODSTATE_EXITED, mod_main_errno>>))
                   ELSE toBroker
    /\ UNCHANGED <<h, mod_main_errno, fin_rc, recVars, toMod, histVars>>
    /\ UNCHANGED auxVars

\* mutant: the EXITED status report is sent on the way out
thread_done_reports ==
    /\ Step("done", "returned")
    /\ h' = IF h = "open" THEN "closed" ELSE h
    /\ toBroker' = Append(toBroker,
                          StatusRequest(FLUX_MATCHTAG_NONE,
                              <<FLUX_MODSTATE_EXITED, mod_main_errno>>))
    /\ UNCHANGED <<mod_main_errno, fin_rc, recVars, toMod, histVars>>
    /\ UNCHANGED auxVars

\* mutant: the thread sets p->status itself on its way out
thread_done_sets_status ==
    /\ Step("done", "returned")
    /\ h' = IF h = "open" THEN "closed" ELSE h
    /\ status' = FLUX_MODSTATE_EXITED
    /\ UNCHANGED <<muted, errnum, t, watcher, alive, bpc, aborted>>
    /\ UNCHANGED <<mod_main_errno, fin_rc, chanVars, histVars>>
    /\ UNCHANGED auxVars

\* done: flux_close (p->h), and the thread returns
thread_done ==
    /\ Step("done", "returned")
    /\ h' = IF h = "open" THEN "closed" ELSE h
    /\ UNCHANGED <<mod_main_errno, fin_rc, recVars, chanVars, histVars>>
    /\ UNCHANGED auxVars

module_thread ==
    \/ \E ok \in BOOLEAN : thread_open(ok)
    \/ \E ok \in BOOLEAN : thread_attr(ok)
    \/ \E ok \in BOOLEAN : thread_conf(ok)
    \/ \E ok \in BOOLEAN : thread_modservice(ok)
    \/ \E ok \in BOOLEAN : thread_sigmask(ok)
    \/ \E answer \in BOOLEAN : main_handle(answer)
    \/ \E m \in MainMsgs : main_send(m)
    \/ \E rc \in {0, -1}, errno \in {0, EIO} : main_return(rc, errno)
    \/ \E ok \in BOOLEAN : finalizing_send(ok)
    \/ finalizing_get
    \/ finalizing_get_fails
    \/ \E ok \in BOOLEAN : drain_request(ok)
    \/ drain_end
    \/ \E ok \in BOOLEAN : thread_exited(ok)
    \/ thread_done

(* The broker thread. *)
\* module_start: flux_watcher_start, pthread_create
module_start(ok) ==
    /\ BrokerFree
    /\ watcher = "stopped"
    /\ t = "none"
    /\ watcher' = "started"
    /\ t' = IF ok THEN "running" ELSE t
    /\ pc' = IF ok THEN "open" ELSE pc
    /\ UNCHANGED <<status, muted, errnum, alive, bpc, aborted>>
    /\ UNCHANGED <<h, mod_main_errno, fin_rc, chanVars, histVars>>
    /\ UNCHANGED auxVars

\* what the broker sends to the module on its own
SysMsgs ==
    {Msg(FLUX_MSGTYPE_REQUEST, "x.y", <<ClientId>>, OwnerUid, FLUX_ROLE_OWNER,
         FLUX_MATCHTAG_NONE, 0, <<>>),
     Msg(FLUX_MSGTYPE_RESPONSE, StatusTopic, <<uuid_str>>, OwnerUid, FLUX_ROLE_OWNER,
         FLUX_MATCHTAG_NONE, 0, <<>>),
     Msg(FLUX_MSGTYPE_EVENT, "x.y", <<>>, OwnerUid, FLUX_ROLE_OWNER,
         FLUX_MATCHTAG_NONE, 0, <<>>)}

\* the broker routes a message to the module: module_sendmsg
broker_sendmsg(msg, fault) ==
    /\ BrokerFree
    /\ nsend < MaxSend
    /\ nsend' = nsend + 1
    /\ lastSend' = SendCall(muted, msg, fault)
    /\ toMod' = Transmit(toMod, lastSend')
    /\ UNCHANGED <<recVars, thrVars, toBroker>>
    /\ UNCHANGED <<lastRecv, lastDrain, acked, nmodsend>>
    /\ UNCHANGED auxVars

\* a request for the broker.module-status service
IsStatusRequest(m) ==
    m # NoMsg /\ m.type = FLUX_MSGTYPE_REQUEST /\ m.topic = StatusTopic

\* the broker's broker.module-status service, called with the request msg as
\* module_recvmsg returned it: a FINALIZING report mutes the module, an EXITED
\* report stores its errnum, a request that asks for a response is answered,
\* and the reported status is set
broker_module_status_cb(msg) ==
    LET reported == msg.payload[1]
        p_muted == muted \/ reported = FLUX_MODSTATE_FINALIZING
        answer == msg.matchtag # FLUX_MATCHTAG_NONE
        call == SendCall(p_muted, flux_respond(msg, 0), "none")
        set == module_set_status(status, reported)
    IN  /\ muted' = p_muted
        /\ errnum' = IF reported = FLUX_MODSTATE_EXITED /\ Len(msg.payload) > 1
                     THEN msg.payload[2]
                     ELSE errnum
        /\ lastSend' = IF answer THEN call ELSE lastSend
        /\ toMod' = IF answer THEN Transmit(toMod, call) ELSE toMod
        /\ acked' = (acked \/ (answer /\ reported = FLUX_MODSTATE_FINALIZING
                                      /\ call.rc = 0))
        /\ status' = set.status
        /\ aborted' = set.asserted
        /\ lastSet' = SetCall(status_cb, status, reported)

\* module_cb: the channel is readable; the broker's poller pulls one message
\* with module_recvmsg and hands a status report to its service
module_cb(fault) ==
    /\ ~aborted /\ bpc = "idle"
    /\ watcher = "started"
    /\ toBroker # <<>>
    /\ LET r == module_recvmsg(Head(toBroker), fault)
       IN  /\ lastRecv' = RecvCall(Head(toBroker), fault)
           /\ toBroker' = IF r.taken THEN Tail(toBroker) ELSE toBroker
           /\ IF r.asserted
              THEN /\ aborted' = TRUE
                   /\ UNCHANGED <<status, muted, errnum, toMod, lastSend, acked,
                                   lastSet>>
              ELSE IF IsStatusRequest(r.msg)
              THEN broker_module_status_cb(r.msg)
              ELSE UNCHANGED <<status, muted, errnum, aborted, toMod, lastSend, acked,
                               lastSet>>
    /\ UNCHANGED <<t, watcher, alive, bpc, thrVars, lastDrain, nsend, nmodsend>>
    /\ UNCHANGED <<admVars, dlog, mainret, extVars>>

\* module_destroy is entered with the thread started: pthread_join blocks
module_destroy_join ==
    /\ BrokerFree
    /\ t = "running"
    /\ bpc' = "join"
    /\ UNCHANGED <<status, muted, errnum, t, watcher, alive, aborted>>
    /\ UNCHANGED <<thrVars, chanVars, histVars>>
    /\ UNCHANGED auxVars

\* module_destroy from the return of pthread_join (or from its entry, with no
\* thread) to its end
module_destroy ==
    /\ alive /\ ~aborted
    /\ \/ bpc = "idle" /\ t = "none"
       \/ bpc = "join" /\ pc = "returned"
    /\ LET steps == destroy_steps(t = "running", status)
           Done(step) == StepIndex(steps, step) # 0
           set == IF Done("module_set_status")
                  THEN module_set_status(status, FLUX_MODSTATE_EXITED)
                  ELSE [asserted |-> FALSE, status |-> status]
       IN  /\ status' = set.status
           /\ aborted' = set.asserted
           /\ lastSet' = IF Done("module_set_status")
                         THEN SetCall(status_cb, status, FLUX_MODSTATE_EXITED)
                         ELSE lastSet
           /\ t' = IF Done("pthread_join") THEN "joined" ELSE t
           /\ watcher' = IF Done("flux_watcher_destroy") THEN "destroyed"
                         ELSE IF Done("flux_watcher_stop") THEN "stopped"
                         ELSE watcher
           /\ alive' = ~Done("free")
           /\ dlog' = steps
           /\ disc_sent' = IF Done("disconnect_destroy")
                           THEN disconnect_destroy(disconnect)
                           ELSE disc_sent
    /\ bpc' = "idle"
    /\ UNCHANGED <<muted, errnum, thrVars, chanVars, histVars>>
    /\ UNCHANGED <<admVars, mainret, cancel_req, lastApi, servVars>>
    /\ UNCHANGED <<disconnect, lastArm>>

Next ==
    \/ \E ok \in BOOLEAN : module_start(ok)
    \/ \E m \in SysMsgs : broker_sendmsg(m, "none")
    \/ module_cb("none")
    \/ module_destroy_join
    \/ module_destroy
    \/ module_thread

Spec == Init /\ [][Next]_vars

(***************************************************************************)
(* SpecStatus: the status, its callback and the stored errnum, set in any  *)
(* order.                                                                  *)
(***************************************************************************)
\* module_set_status_cb: cb is a function (registered) or NULL
module_set_status_cb(registered) ==
    /\ BrokerFree
    /\ status_cb' = registered
    /\ UNCHANGED <<recVars, thrVars, chanVars, histVars>>
    /\ UNCHANGED <<cfgVars, lastSet, dlog, mainret, extVars>>

module_set_errnum(new_errnum) ==
    /\ BrokerFree
    /\ errnum' = new_errnum
    /\ UNCHANGED <<status, muted, t, watcher, alive, bpc, aborted>>
    /\ UNCHANGED <<thrVars, chanVars, histVars, auxVars>>

\* module_get_errnum
module_get_errnum == errnum

NextStatus ==
    \/ \E s \in ModStates : api_set_status(s)
    \/ \E registered \in BOOLEAN : module_set_status_cb(registered)
    \/ \E e \in {0, EIO, ECONNRESET} : module_set_errnum(e)

SpecStatus == Init /\ [][NextStatus]_vars

(***************************************************************************)
(* SpecQueue: the pending remove-module and install-module requests.       *)
(* p->rmmod is a zlist, modelled as the sequence of its items from the     *)
(* head: zlist_push puts an item at the head, zlist_append at the tail,    *)
(* zlist_pop takes the item at the head.                                   *)
(***************************************************************************)
\* longest list of pending requests the model builds
MaxPending == 2

zlist_push(list, item) == <<item>> \o list
zlist_append(list, item) == Append(list, item)
zlist_pop(list) ==
    IF list = <<>>
    THEN [item |-> NoMsg, list |-> list]
    ELSE [item |-> Head(list), list |-> Tail(list)]

\* the administrative requests the broker parks on a record
AdmMsgs ==
    {Msg(FLUX_MSGTYPE_REQUEST, "x.y", <<ClientId>>, OwnerUid, FLUX_ROLE_OWNER,
         tag, 0, <<tag>>) : tag \in 1..3}
PushFaults == {"none", "copy", "push"}

\* mutant: the copy is appended to the list
module_push_rmmod_append(p_rmmod, msg, fault) ==
    IF fault # "none"
    THEN [rc |-> -1, errno |-> ENOMEM, rmmod |-> p_rmmod]
    ELSE [rc |-> 0, errno |-> 0,
          rmmod |-> zlist_append(p_rmmod, flux_msg_copy(msg, FALSE))]

module_push_rmmod(p_rmmod, msg, fault) ==
    IF fault = "copy" THEN [rc |-> -1, errno |-> ENOMEM, rmmod |-> p_rmmod]
    ELSE IF fault = "push" THEN [rc |-> -1, errno |-> ENOMEM, rmmod |-> p_rmmod]
    ELSE [rc |-> 0, errno |-> 0,
          rmmod |-> zlist_push(p_rmmod, flux_msg_copy(msg, FALSE))]

module_pop_rmmod(p_rmmod) == zlist_pop(p_rmmod)

\* mutant: a message already in the slot is kept
module_push_insmod_keep(p_insmod, msg, fault) ==
    IF fault = "copy" THEN [rc |-> -1, errno |-> ENOMEM, insmod |-> p_insmod]
    ELSE IF p_insmod # NoMsg THEN [rc |-> 0, errno |-> 0, insmod |-> p_insmod]
    ELSE [rc |-> 0, errno |-> 0, insmod |-> flux_msg_copy(msg, FALSE)]

\* the message in the slot, if any, is destroyed and the copy takes its place
module_push_insmod(p_insmod, msg, fault) ==
    IF fault = "copy" THEN [rc |-> -1, errno |-> ENOMEM, insmod |-> p_insmod]
    ELSE [rc |-> 0, errno |-> 0, insmod |-> flux_msg_copy(msg, FALSE)]

module_pop_insmod(p_insmod) == [msg |-> p_insmod, insmod |-> NoMsg]

\* seq without the entries equal to item
Remove(seq, item) ==
    LET Differs(x) == x # item IN SelectSeq(seq, Differs)

queue_push_rmmod(msg, fault) ==
    /\ BrokerFree
    /\ Len(rmmod) < MaxPending
    /\ \A i \in 1..Len(rmmod) : rmmod[i].matchtag # msg.matchtag
    /\ LET r == module_push_rmmod(rmmod, msg, fault)
       IN  /\ rmmod' = r.rmmod
           /\ pushed' = IF r.rc = 0
                         THEN [pushed EXCEPT !.rmmod = Append(@, flux_msg_copy(msg, FALSE))]
                         ELSE pushed
    /\ UNCHANGED <<recVars, thrVars, chanVars, histVars>>
    /\ UNCHANGED <<status_cb, insmod, subs, lastPop, lastSub, lastCast, lastSet,
                   dlog, mainret, extVars>>

queue_pop_rmmod ==
    /\ BrokerFree
    /\ LET r == module_pop_rmmod(rmmod)
       IN  /\ rmmod' = r.list
           /\ lastPop' = [op |-> "rmmod", msg |-> r.item, order |-> pushed.rmmod]
           /\ pushed' = [pushed EXCEPT !.rmmod = Remove(@, r.item)]
    /\ UNCHANGED <<recVars, thrVars, chanVars, histVars>>
    /\ UNCHANGED <<status_cb, insmod, subs, lastSub, lastCast, lastSet, dlog, mainret, extVars>>

queue_push_insmod(msg, fault) ==
    /\ BrokerFree
    /\ Len(pushed.insmod) < MaxPending
    /\ LET r == module_push_insmod(insmod, msg, fault)
       IN  /\ insmod' = r.insmod
           /\ pushed' = IF r.rc = 0
                         THEN [pushed EXCEPT !.insmod = Append(@, flux_msg_copy(msg, FALSE))]
                         ELSE pushed
    /\ UNCHANGED <<recVars, thrVars, chanVars, histVars>>
    /\ UNCHANGED <<status_cb, rmmod, subs, lastPop, lastSub, lastCast, lastSet,
                   dlog, mainret, extVars>>

queue_pop_insmod ==
    /\ BrokerFree
    /\ LET r == module_pop_insmod(insmod)
       IN  /\ insmod' = r.insmod
           /\ lastPop' = [op |-> "insmod", msg |-> r.msg, order |-> pushed.insmod]
           /\ pushed' = [pushed EXCEPT !.insmod = <<>>]
    /\ UNCHANGED <<recVars, thrVars, chanVars, histVars>>
    /\ UNCHANGED <<status_cb, rmmod, subs, lastSub, lastCast, lastSet, dlog, mainret, extVars>>

NextQueue ==
    \/ \E m \in AdmMsgs, f \in PushFaults : queue_push_rmmod(m, f)
    \/ queue_pop_rmmod
    \/ \E m \in AdmMsgs, f \in PushFaults : queue_push_insmod(m, f)
    \/ queue_pop_insmod

SpecQueue == Init /\ [][NextQueue]_vars

(***************************************************************************)
(* SpecSubs: the subscription list and the events cast to the module.      *)
(* p->subs is a zlist of strings, its head first.                          *)
(***************************************************************************)
\* longest subscription list the model builds
MaxSubs == 3

SubTopics == {"job.", "log.", "kvs.commit.x"}
EventTopics == {"job.state.RUN", "kvs.commit", "log."}
SubFaults == {"none", "strdup", "push"}
CastFaults == {"none", "topic", "send"}

\* strstarts (str, prefix) of ccan/str
strstarts(str, prefix) ==
    Len(prefix) <= Len(str) /\ SubSeq(str, 1, Len(prefix)) = prefix

module_subscribe(p_subs, topic, fault) ==
    IF fault = "strdup" THEN [rc |-> -1, errno |-> ENOMEM, subs |-> p_subs]
    ELSE IF fault = "push" THEN [rc |-> -1, errno |-> ENOMEM, subs |-> p_subs]
    ELSE [rc |-> 0, errno |-> 0, subs |-> zlist_push(p_subs, topic)]

\* mutant: every entry equal to the topic is removed
module_unsubscribe_all(p_subs, topic) == Remove(p_subs, topic)

\* zlist_first / zlist_next up to the first entry equal to the topic, which
\* zlist_remove takes out
module_unsubscribe(p_subs, topic) ==
    LET i == StepIndex(p_subs, topic)
    IN  IF i = 0 THEN p_subs
        ELSE SubSeq(p_subs, 1, i - 1) \o SubSeq(p_subs, i + 1, Len(p_subs))

\* mutant: streq in the place of strstarts
match_sub_streq(p_subs, topic) ==
    \E i \in 1..Len(p_subs) : topic = p_subs[i]

match_sub(p_subs, topic) ==
    \E i \in 1..Len(p_subs) : strstarts(topic, p_subs[i])

\* mutant: a muted module is passed over and the cast succeeds
module_event_cast_skips(p_subs, p_muted, msg, fault) ==
    IF fault = "topic" THEN [rc |-> -1, sent |-> FALSE, send |-> NoSend]
    ELSE IF match_sub(p_subs, msg.topic) /\ ~p_muted
    THEN LET call == SendCall(p_muted, msg, fault)
         IN  [rc |-> IF call.rc < 0 THEN -1 ELSE 0, sent |-> TRUE, send |-> call]
    ELSE [rc |-> 0, sent |-> FALSE, send |-> NoSend]

\* module_event_cast: rc, and the module_sendmsg call made, if any
module_event_cast(p_subs, p_muted, msg, fault) ==
    IF fault = "topic" THEN [rc |-> -1, sent |-> FALSE, send |-> NoSend]
    ELSE IF match_sub(p_subs, msg.topic)
    THEN LET call == SendCall(p_muted, msg, fault)
         IN  [rc |-> IF call.rc < 0 THEN -1 ELSE 0, sent |-> TRUE, send |-> call]
    ELSE [rc |-> 0, sent |-> FALSE, send |-> NoSend]

\* the events the broker casts
EventMsgs ==
    {Msg(FLUX_MSGTYPE_EVENT, tp, <<>>, OwnerUid, FLUX_ROLE_OWNER,
         FLUX_MATCHTAG_NONE, 0, <<>>) : tp \in EventTopics}

sub_subscribe(topic, fault) ==
    /\ BrokerFree
    /\ Len(subs) < MaxSubs
    /\ LET r == module_subscribe(subs, topic, fault)
       IN  /\ subs' = r.subs
           /\ lastSub' = [op |-> "subscribe", topic |-> topic, fault |-> fault,
                          rc |-> r.rc, before |-> subs]
    /\ lastCast' = NoCast
    /\ lastSend' = NoSend
    /\ UNCHANGED <<recVars, thrVars, chanVars>>
    /\ UNCHANGED <<lastRecv, lastDrain, acked, nsend, nmodsend>>
    /\ UNCHANGED <<status_cb, rmmod, insmod, pushed, lastPop, lastSet, dlog, mainret, extVars>>

sub_unsubscribe(topic) ==
    /\ BrokerFree
    /\ subs' = module_unsubscribe(subs, topic)
    /\ lastSub' = [op |-> "unsubscribe", topic |-> topic, fault |-> "none",
                   rc |-> 0, before |-> subs]
    /\ lastCast' = NoCast
    /\ lastSend' = NoSend
    /\ UNCHANGED <<recVars, thrVars, chanVars>>
    /\ UNCHANGED <<lastRecv, lastDrain, acked, nsend, nmodsend>>
    /\ UNCHANGED <<status_cb, rmmod, insmod, pushed, lastPop, lastSet, dlog, mainret, extVars>>

sub_event_cast(msg, fault) ==
    /\ BrokerFree
    /\ Len(toMod) < MaxQueue
    /\ LET r == module_event_cast(subs, muted, msg, fault)
       IN  /\ lastCast' = [called |-> TRUE, msg |-> msg, fault |-> fault,
                           muted |-> muted, rc |-> r.rc, out |-> r.send.out]
           /\ lastSend' = IF r.sent THEN r.send ELSE lastSend
           /\ toMod' = Transmit(toMod, r.send)
    /\ lastSub' = NoSub
    /\ UNCHANGED <<recVars, thrVars, toBroker>>
    /\ UNCHANGED <<lastRecv, lastDrain, acked, nsend, nmodsend>>
    /\ UNCHANGED <<status_cb, rmmod, insmod, subs, pushed, lastPop, lastSet, dlog,
                   mainret, extVars>>

NextSubs ==
    \/ \E tp \in SubTopics, f \in SubFaults : sub_subscribe(tp, f)
    \/ \E tp \in SubTopics : sub_unsubscribe(tp)
    \/ \E m \in EventMsgs, f \in CastFaults : sub_event_cast(m, f)
    \/ module_mute
    \/ api_modrecv

SpecSubs == Init /\ [][NextSubs]_vars

(***************************************************************************)
(* SpecLife: a record with or without a status callback is started, runs   *)
(* with no traffic but its own status reports, and is destroyed at any     *)
(* point.                                                                  *)
(***************************************************************************)
\* the steps of module_thread when nothing is sent to the module
life_thread ==
    \/ \E ok \in BOOLEAN : thread_open(ok)
    \/ \E ok \in BOOLEAN : thread_attr(ok)
    \/ \E ok \in BOOLEAN : thread_conf(ok)
    \/ \E ok \in BOOLEAN : thread_modservice(ok)
    \/ \E ok \in BOOLEAN : thread_sigmask(ok)
    \/ \E rc \in {0, -1}, errno \in {0, EIO} : main_return(rc, errno)
    \/ \E ok \in BOOLEAN : finalizing_send(ok)
    \/ finalizing_get
    \/ finalizing_get_fails
    \/ drain_end
    \/ \E ok \in BOOLEAN : thread_exited(ok)
    \/ thread_done

NextLife ==
    \/ \E registered \in BOOLEAN : module_set_status_cb(registered)
    \/ \E ok \in BOOLEAN : module_start(ok)
    \/ module_cb("none")
    \/ module_destroy_join
    \/ module_destroy
    \/ life_thread

SpecLife == Init /\ [][NextLife]_vars

(* SpecLifeFair: SpecLife with the module thread scheduled through its     *)
(* startup and its way out, and the broker's reactor servicing the         *)
(* channel.  When the broker destroys the record is left to the broker.    *)
\* module_thread up to the call of the entry point
life_startup ==
    \/ \E ok \in BOOLEAN : thread_open(ok)
    \/ \E ok \in BOOLEAN : thread_attr(ok)
    \/ \E ok \in BOOLEAN : thread_conf(ok)
    \/ \E ok \in BOOLEAN : thread_modservice(ok)
    \/ \E ok \in BOOLEAN : thread_sigmask(ok)

SpecLifeFair ==
    /\ Init
    /\ [][NextLife]_vars
    /\ WF_vars(module_cb("none"))
    /\ WF_vars(life_startup)
    /\ WF_vars(thread_done)

(***************************************************************************)
(* SpecNormal: the normal lifecycle.  No step of the module thread fails,  *)
(* the record is not destroyed under the thread, the thread is scheduled   *)
(* and the broker's reactor keeps servicing the channel.  What the entry   *)
(* point does, and whether it returns, is left to the module.              *)
(***************************************************************************)
\* module_thread from its start to the call of the entry point
normal_thread_start ==
    \/ thread_open(TRUE)
    \/ thread_attr(TRUE)
    \/ thread_conf(TRUE)
    \/ thread_modservice(TRUE)
    \/ thread_sigmask(TRUE)

\* the entry point
normal_main ==
    \/ \E m \in MainMsgs : main_send(m)
    \/ \E rc \in {0, -1}, errno \in {0, EIO} : main_return(rc, errno)

\* module_thread from the return of the entry point to its end
normal_thread_end ==
    \/ finalizing_send(TRUE)
    \/ finalizing_get
    \/ drain_end
    \/ thread_exited(TRUE)
    \/ thread_done

NextNormal ==
    \/ \E ok \in BOOLEAN : module_start(ok)
    \/ module_cb("none")
    \/ normal_thread_start
    \/ normal_main
    \/ normal_thread_end

SpecNormal ==
    /\ Init
    /\ [][NextNormal]_vars
    /\ WF_vars(module_cb("none"))
    /\ WF_vars(normal_thread_start)
    /\ WF_vars(normal_thread_end)

(***************************************************************************)
(* SpecCancel: module_cancel called at any point of the life of a record,  *)
(* with the cancellation acting on the module thread.                      *)
(***************************************************************************)
\* what pthread_cancel can return: success, no such thread, or another error
CancelErrors == {0, ESRCH, EINVAL}

\* the record of one API call with its result
ApiCall(op, args, rc, errno) ==
    [op |-> op, args |-> args, rc |-> rc, errno |-> errno, crashed |-> FALSE,
     steps |-> <<>>, out |-> ""]

module_cancel_strict(started, e) ==
    IF started /\ e # 0 THEN -1 ELSE 0

\* module_cancel: p->t is set (started) and pthread_cancel returns e
module_cancel(started, e) ==
    IF started /\ e # 0 /\ e # ESRCH THEN -1 ELSE 0

\* the module thread has been created and has not ended
ThreadLives == t = "running" /\ pc # "returned"

\* module_cancel (p, error); pthread_cancel reports ESRCH only for a thread
\* that has ended
api_cancel(e) ==
    /\ BrokerFree
    /\ e = ESRCH => (t = "running" /\ pc = "returned")
    /\ lastApi' = ApiCall("module_cancel", <<t # "none", e>>,
                          module_cancel(t # "none", e), 0)
    /\ cancel_req' = (cancel_req \/ (ThreadLives /\ e = 0))
    /\ UNCHANGED <<recVars, thrVars, chanVars, histVars>>
    /\ UNCHANGED <<admVars, lastSet, dlog, mainret, servVars, discVars>>

\* the module thread acts on the cancellation request at a cancellation
\* point: it ends there, with none of the steps that were left
thread_cancelled ==
    /\ ~aborted
    /\ cancel_req /\ ThreadLives
    /\ pc' = "returned"
    /\ cancel_req' = FALSE
    /\ UNCHANGED <<h, mod_main_errno, fin_rc, recVars, chanVars, histVars>>
    /\ UNCHANGED <<admVars, lastSet, dlog, mainret, lastApi, servVars, discVars>>

NextCancel ==
    \/ \E ok \in BOOLEAN : module_start(ok)
    \/ module_mute
    \/ \E m \in AdmMsgs : queue_push_insmod(m, "none")
    \/ \E e \in CancelErrors : api_cancel(e)
    \/ thread_cancelled
    \/ module_cb("none")
    \/ module_destroy_join
    \/ module_destroy
    \/ life_thread

SpecCancel == Init /\ [][NextCancel]_vars

(***************************************************************************)
(* SpecCreate: module_create with any name, path and artifact, and any     *)
(* step of it failing; a record that is returned is then used.             *)
(***************************************************************************)
\* a NULL string, and an artifact with no mod_name symbol
NULL == "(null)"
NoSymbol == "(no symbol)"

\* basename (path): what follows the last '/'
basename(path) ==
    LET at == {i \in 1..Len(path) : SubSeq(path, i, i) = "/"}
        last == IF at = {} THEN 0 ELSE CHOOSE i \in at : \A j \in at : j <= i
    IN  SubSeq(path, last + 1, Len(path))

\* strstr (str, sub): the index of the first occurrence of sub, 0 for NULL
strstr(str, sub) ==
    FirstOf({i \in 1..(Len(str) - Len(sub) + 1) :
                 SubSeq(str, i, i + Len(sub) - 1) = sub})

\* module_name_from_path: the basename, cut at its first ".so"
module_name_from_path(s) ==
    LET name == basename(s)
        cp == strstr(name, ".so")
    IN  IF cp = 0 THEN name ELSE SubSeq(name, 1, cp - 1)

record_name_frompath(name, path) == module_name_from_path(path)

\* p->name: the name given, or else the name derived from the path
record_name(name, path) ==
    IF name # NULL THEN name ELSE module_name_from_path(path)

\* the steps of module_create that can fail, in order
CreateFaults == <<"dlopen", "mod_main", "calloc", "nomem", "mod_name", "zsock_new_pair",
                  "zsock_bind", "watcher_create">>

\* the fault strikes at a step before step
FailsBefore(fault, step) ==
    /\ StepIndex(CreateFaults, fault) # 0
    /\ StepIndex(CreateFaults, fault) < StepIndex(CreateFaults, step)

CreateResult(p_name, errno, steps) ==
    [name |-> p_name, status |-> FLUX_MODSTATE_INIT, errno |-> errno, steps |-> steps]

\* module_create: name may be NULL; mod_name is what the artifact exports under
\* that symbol; fault is the step that fails, if any.  The result has name
\* NULL when no record is returned, errno, and the steps module_destroy took
\* on the partially built record.
module_create(name, path, mod_name, fault) ==
    LET p_name == record_name(name, path)
        cleanup == destroy_steps(FALSE, FLUX_MODSTATE_INIT)
    IN  IF fault = "dlopen" THEN CreateResult(NULL, ENOENT, <<>>)
        ELSE IF fault = "mod_main" THEN CreateResult(NULL, EINVAL, <<>>)
        ELSE IF fault = "calloc" THEN CreateResult(NULL, ENOMEM, <<>>)
        ELSE IF fault = "nomem" THEN CreateResult(NULL, ENOMEM, cleanup)
        ELSE IF mod_name # NoSymbol /\ mod_name # NULL /\ mod_name # p_name
        THEN CreateResult(NULL, EINVAL, cleanup)
        ELSE IF fault \in {"zsock_new_pair", "zsock_bind", "watcher_create"}
        THEN CreateResult(NULL, ELIB, cleanup)
        ELSE CreateResult(p_name, 0, <<>>)

Names == {NULL, "foo", "bar"}
Paths == {"/usr/lib/flux/foo.so", "./bar.so", "mod/foo.so.1"}
ModNames == {NoSymbol, NULL, "foo", "bar"}

\* no record yet: module_create has not been called
InitCreate ==
    /\ alive = FALSE
    /\ status = FLUX_MODSTATE_INIT /\ muted = FALSE /\ errnum = 0
    /\ t = "none" /\ watcher = "stopped" /\ bpc = "idle" /\ aborted = FALSE
    /\ pc = "none" /\ h = "null" /\ mod_main_errno = 0 /\ fin_rc = 1
    /\ toMod = <<>> /\ toBroker = <<>>
    /\ lastSend = NoSend /\ lastRecv = NoRecv /\ lastDrain = NoDrain
    /\ acked = FALSE /\ nsend = 0 /\ nmodsend = 0
    /\ status_cb = FALSE /\ rmmod = <<>> /\ insmod = NoMsg /\ subs = <<>>
    /\ lastSet = NoSet /\ pushed = NoPush /\ lastPop = NoPop
    /\ lastSub = NoSub /\ lastCast = NoCast
    /\ dlog = <<>> /\ mainret = NoRet
    /\ cancel_req = FALSE /\ lastApi = NoApi
    /\ services = NoServices /\ upstream = <<>> /\ replies = <<>>
    /\ up_services = {} /\ nreq = 0 /\ lastServ = NoServ /\ sh_live = TRUE
    /\ respond_cb = FALSE
    /\ disconnect = NoTracker /\ disc_sent = <<>> /\ lastArm = NoArm

api_create(name, path, mod_name, fault) ==
    /\ ~alive /\ lastApi.op = "none"
    /\ LET r == module_create(name, path, mod_name, fault)
       IN  /\ alive' = (r.name # NULL)
           /\ status' = r.status
           /\ lastApi' = [op |-> "module_create",
                          args |-> <<name, path, mod_name, fault>>,
                          rc |-> IF r.name # NULL THEN 0 ELSE -1,
                          errno |-> r.errno, crashed |-> FALSE, steps |-> r.steps,
                          out |-> r.name]
    /\ UNCHANGED <<muted, errnum, t, watcher, bpc, aborted>>
    /\ UNCHANGED <<thrVars, chanVars, histVars>>
    /\ UNCHANGED <<admVars, lastSet, dlog, mainret, cancel_req, servVars, discVars>>

NextCreate ==
    \/ \E name \in Names, path \in Paths, mod_name \in ModNames,
          fault \in {"none"} \cup {CreateFaults[i] : i \in 1..Len(CreateFaults)} :
           api_create(name, path, mod_name, fault)
    \/ \E registered \in BOOLEAN : module_set_status_cb(registered)
    \/ \E ok \in BOOLEAN : module_start(ok)
    \/ module_destroy

SpecCreate == InitCreate /\ [][NextCreate]_vars

(***************************************************************************)
(* SpecNull: the host API entries called with a NULL record or a NULL      *)
(* message.                                                                *)
(***************************************************************************)
\* the entries that take a message (or a topic string) besides the record
MsgEntries == {"module_sendmsg", "module_event_cast", "module_push_rmmod",
               "module_push_insmod", "module_subscribe", "module_unsubscribe"}
\* the entries that read one field of the record for their caller
Getters == {"module_get_path", "module_get_name", "module_get_uuid",
            "module_get_lastseen", "module_get_status"}
\* the other entries, which take the record
RecordEntries == {"module_recvmsg", "module_pop_rmmod", "module_pop_insmod",
                  "module_stop", "module_start", "module_cancel", "module_mute",
                  "module_set_errnum", "module_get_errnum", "module_set_status",
                  "module_disconnect_arm"}
Entries == MsgEntries \cup Getters \cup RecordEntries

\* what an entry makes of a NULL argument: ub when it dereferences the
\* pointer, else what it returns (rc 0 standing for a getter's default value)
\* and whether it sets errno
NullResult(ub, rc, errno) == [ub |-> ub, rc |-> rc, errno |-> errno]

\* entry (NULL, ...): only the getters test the record
null_record(entry) ==
    IF entry \in Getters THEN NullResult(FALSE, 0, 0) ELSE NullResult(TRUE, 0, 0)

null_message_einval(entry, p_subs) ==
    IF entry \in {"module_subscribe", "module_unsubscribe"}
    THEN NullResult(entry = "module_subscribe" \/ p_subs # <<>>, 0, 0)
    ELSE NullResult(FALSE, -1, EINVAL)

\* entry (p, NULL), p being a record whose subscription list is p_subs:
\* module_sendmsg returns 0; module_event_cast, module_push_rmmod and
\* module_push_insmod hand the message to flux_msg_get_topic or flux_msg_copy,
\* which fail with EINVAL; module_subscribe hands the topic to strdup and
\* module_unsubscribe to streq, once for every entry of the list
null_message(entry, p_subs) ==
    CASE entry = "module_sendmsg" -> NullResult(FALSE, 0, 0)
      [] entry \in {"module_event_cast", "module_push_rmmod", "module_push_insmod"} ->
             NullResult(FALSE, -1, EINVAL)
      [] entry = "module_subscribe" -> NullResult(TRUE, 0, 0)
      [] entry = "module_unsubscribe" -> NullResult(p_subs # <<>>, 0, 0)

\* an entry is called with a NULL record (which = "record") or with a record
\* and a NULL message (which = "message").  A NULL dereference is undefined:
\* the process is killed, or the call returns some value.
api_null(entry, which, crash, garbage) ==
    /\ BrokerFree
    /\ which = "message" => entry \in MsgEntries
    /\ LET r == IF which = "record" THEN null_record(entry)
                ELSE null_message(entry, subs)
       IN  /\ ~r.ub => (~crash /\ garbage = 0)
           /\ aborted' = (r.ub /\ crash)
           /\ lastApi' = [op |-> entry, args |-> <<which>>,
                          rc |-> IF r.ub THEN garbage ELSE r.rc,
                          errno |-> r.errno, crashed |-> r.ub /\ crash,
                          steps |-> <<>>, out |-> ""]
    /\ UNCHANGED <<status, muted, errnum, t, watcher, alive, bpc>>
    /\ UNCHANGED <<thrVars, chanVars, histVars>>
    /\ UNCHANGED <<admVars, lastSet, dlog, mainret, cancel_req, servVars, discVars>>

NextNull ==
    \/ \E entry \in Entries, which \in {"record", "message"}, crash \in BOOLEAN,
          garbage \in {0, -1} : api_null(entry, which, crash, garbage)
    \/ module_mute
    \/ \E topic \in SubTopics : sub_subscribe(topic, "none")

SpecNull == Init /\ [][NextNull]_vars

(***************************************************************************)
(* SpecServ: the proxy service table (servhash.c) of a router, the         *)
(* requests it sends to the upstream broker and their responses.           *)
(***************************************************************************)
\* the record of one call on the table
ServCall(op, name, uuid, fault, r) ==
    [op |-> op, name |-> name, uuid |-> uuid, fault |-> fault, rc |-> r.rc,
     errno |-> r.errno, before |-> services, sent |-> r.sent,
     responds |-> r.responds]

\* the table and the requests after a call with result r
ServDone(r) ==
    /\ services' = r.services
    /\ upstream' = upstream \o r.sent
    /\ nreq' = nreq + Len(r.sent)

modVars == <<recVars, thrVars, chanVars, histVars, admVars, lastSet, dlog, mainret,
             cancel_req, lastApi, discVars>>

serv_add(name, uuid, fault) ==
    /\ sh_live /\ nreq < MaxReq
    /\ LET r == servhash_add(services, name, uuid,
                             ServMsg("add", name, uuid), fault, nreq + 1)
       IN  ServDone(r) /\ lastServ' = ServCall("add", name, uuid, fault, r)
    /\ UNCHANGED <<replies, up_services, sh_live, respond_cb, modVars>>

serv_remove(name, uuid, fault) ==
    /\ sh_live /\ nreq < MaxReq
    /\ LET r == servhash_remove(services, name, uuid,
                                ServMsg("remove", name, uuid), fault,
                                nreq + 1)
       IN  ServDone(r) /\ lastServ' = ServCall("remove", name, uuid, fault, r)
    /\ UNCHANGED <<replies, up_services, sh_live, respond_cb, modVars>>

serv_disconnect(uuid) ==
    /\ sh_live
    /\ LET r == servhash_disconnect(services, uuid, nreq + 1)
       IN  ServDone(r) /\ lastServ' = ServCall("disconnect", "", uuid, "none", r)
    /\ UNCHANGED <<replies, up_services, sh_live, respond_cb, modVars>>

serv_destroy ==
    /\ sh_live
    /\ LET r == servhash_destroy(services, nreq + 1)
       IN  ServDone(r) /\ lastServ' = ServCall("destroy", "", "", "none", r)
    /\ sh_live' = FALSE
    /\ UNCHANGED <<replies, up_services, respond_cb, modVars>>

\* servhash_set_respond
serv_set_respond(cb) ==
    /\ sh_live
    /\ respond_cb' = cb
    /\ UNCHANGED <<services, upstream, replies, up_services, nreq, lastServ, sh_live,
                   modVars>>

\* the upstream broker takes a request: it registers a name that is free
\* unless it refuses, and unregisters a name that is registered
upstream_handle(refuse) ==
    /\ upstream # <<>>
    /\ LET req == Head(upstream)
           ok == IF req.op = "add" THEN req.name \notin up_services /\ ~refuse
                 ELSE req.name \in up_services
       IN  /\ req.op = "remove" => ~refuse
           /\ up_services' = IF ~ok THEN up_services
                             ELSE IF req.op = "add" THEN up_services \cup {req.name}
                             ELSE up_services \ {req.name}
           /\ replies' = Append(replies,
                                Reply(req.id, IF ok THEN 0
                                              ELSE IF req.op = "add" THEN EEXIST
                                              ELSE ENOENT))
    /\ upstream' = Tail(upstream)
    /\ UNCHANGED <<services, nreq, lastServ, sh_live, respond_cb, modVars>>

\* the request at the head does not reach the upstream broker (the overlay
\* is down): it is answered with an error and no registration changes
upstream_error ==
    /\ upstream # <<>>
    /\ replies' = Append(replies, Reply(Head(upstream).id, ECONNRESET))
    /\ upstream' = Tail(upstream)
    /\ UNCHANGED <<services, up_services, nreq, lastServ, sh_live, respond_cb, modVars>>

\* a response arrives: the continuation of its future runs, if the future
\* has not been destroyed
reply_handle ==
    /\ replies # <<>>
    /\ LET rep == Head(replies)
           adds == AddFuture(services, rep.id)
           removes == RemoveFuture(services, rep.id)
       IN  IF adds # {}
           THEN LET i == CHOOSE i \in adds : TRUE
                    r == add_continuation(services, i, rep.errnum, respond_cb, nreq + 1)
                IN  /\ ServDone(r)
                    /\ lastServ' = ServCall("add_continuation", ServNames[i],
                                            services[i].uuid, "none", r)
           ELSE IF removes # {}
           THEN LET i == CHOOSE i \in removes : TRUE
                    r == remove_continuation(services, i, rep.errnum, respond_cb,
                                             nreq + 1)
                IN  /\ ServDone(r)
                    /\ lastServ' = ServCall("remove_continuation", ServNames[i],
                                            services[i].uuid, "none", r)
           ELSE UNCHANGED <<services, upstream, nreq, lastServ>>
    /\ replies' = Tail(replies)
    /\ UNCHANGED <<up_services, sh_live, respond_cb, modVars>>

NextServ ==
    \/ \E i \in 1..Len(ServNames), uuid \in ServUuids, fault \in ServFaults :
           serv_add(ServNames[i], uuid, fault)
    \/ \E i \in 1..Len(ServNames), uuid \in ServUuids,
          fault \in ServFaults \ {"nomem"} : serv_remove(ServNames[i], uuid, fault)
    \/ \E uuid \in ServUuids : serv_disconnect(uuid)
    \/ serv_destroy
    \/ \E refuse \in BOOLEAN : upstream_handle(refuse)
    \/ reply_handle

SpecServ == Init /\ [][NextServ]_vars

(***************************************************************************)
(* SpecResp: the table of a router that sets a respond callback            *)
(* (servhash_set_respond), the calls that reach the upstream broker and    *)
(* the continuations of their responses.                                   *)
(***************************************************************************)
NextResp ==
    \/ \E cb \in BOOLEAN : serv_set_respond(cb)
    \/ \E i \in 1..Len(ServNames), uuid \in ServUuids : serv_add(ServNames[i], uuid, "none")
    \/ \E i \in 1..Len(ServNames), uuid \in ServUuids :
           serv_remove(ServNames[i], uuid, "none")
    \/ \E uuid \in ServUuids : serv_disconnect(uuid)
    \/ \E refuse \in BOOLEAN : upstream_handle(refuse)
    \/ upstream_error
    \/ reply_handle

SpecResp == Init /\ [][NextResp]_vars

(***************************************************************************)
(* SpecFinal: the way out of the module thread with the FINALIZING report  *)
(* free to fail, at the send or at the wait for its response.  The other   *)
(* steps of the thread succeed, the thread is scheduled and the broker's   *)
(* reactor keeps servicing the channel; the broker routes messages to the  *)
(* module at any time.                                                     *)
(***************************************************************************)
\* module_thread from the return of the entry point to its end
final_thread_end ==
    \/ \E ok \in BOOLEAN : finalizing_send(ok)
    \/ finalizing_get
    \/ finalizing_get_fails
    \/ \E ok \in BOOLEAN : drain_request(ok)
    \/ drain_end
    \/ thread_exited(TRUE)
    \/ thread_done

NextFinal ==
    \/ \E ok \in BOOLEAN : module_start(ok)
    \/ \E m \in SysMsgs : broker_sendmsg(m, "none")
    \/ module_cb("none")
    \/ normal_thread_start
    \/ \E rc \in {0, -1}, errno \in {0, EIO} : main_return(rc, errno)
    \/ final_thread_end

SpecFinal ==
    /\ Init
    /\ [][NextFinal]_vars
    /\ WF_vars(module_cb("none"))
    /\ WF_vars(normal_thread_start)
    /\ WF_vars(final_thread_end)

(***************************************************************************)
(* SpecRoute: module_sendmsg and module_recvmsg with their routing steps   *)
(* (copy, route push and pop, credential get and set) free to fail, on a   *)
(* record that is muted, subscribed and given rmmod and insmod requests    *)
(* in between.                                                             *)
(***************************************************************************)
RouteSendFaults == {"none", "copy", "route"}
RouteRecvFaults == {"none", "route", "cred"}

\* what the broker routes to the module: a RESPONSE with an empty route
\* stack has no entry to pop
RouteSendMsgs ==
    {Msg(FLUX_MSGTYPE_REQUEST, "x.y", <<ClientId>>, OwnerUid, FLUX_ROLE_OWNER,
         FLUX_MATCHTAG_NONE, 0, <<>>),
     Msg(FLUX_MSGTYPE_RESPONSE, "x.y", <<ClientId, uuid_str>>, OwnerUid,
         FLUX_ROLE_OWNER, FLUX_MATCHTAG_NONE, 0, <<>>),
     Msg(FLUX_MSGTYPE_RESPONSE, "x.y", <<>>, OwnerUid, FLUX_ROLE_OWNER,
         FLUX_MATCHTAG_NONE, 0, <<>>)}

\* what the module sends, with no credential of its own
RouteRecvMsgs ==
    {m \in ModMsgs : /\ m.userid = FLUX_USERID_UNKNOWN /\ m.rolemask = FLUX_ROLE_NONE
                     /\ m.type \in {FLUX_MSGTYPE_REQUEST, FLUX_MSGTYPE_RESPONSE}
                     /\ m.route = <<>> \/ (m.type = FLUX_MSGTYPE_RESPONSE
                                           /\ Len(m.route) = 2)}

\* the request the broker parks on the record
RouteAdmMsg == CHOOSE m \in AdmMsgs : m.matchtag = 1

NextRoute ==
    \/ \E m \in RouteSendMsgs, f \in RouteSendFaults : broker_sendmsg(m, f)
    \/ \E m \in RouteRecvMsgs : recv_modsend(m)
    \/ \E f \in RouteRecvFaults : recv_recvmsg(f)
    \/ module_mute
    \/ subs = <<>> /\ sub_subscribe("job.", "none")
    \/ rmmod = <<>> /\ queue_push_rmmod(RouteAdmMsg, "none")
    \/ insmod = NoMsg /\ queue_push_insmod(RouteAdmMsg, "none")

SpecRoute == Init /\ [][NextRoute]_vars

(***************************************************************************)
(* SpecDisc: module_disconnect_arm called at any point of the life of a    *)
(* record, with any of two callbacks, and the record destroyed at any      *)
(* point.                                                                  *)
(***************************************************************************)
\* the callbacks handed to module_disconnect_arm
ArmCbs == {"cb1", "cb2"}

\* requests of the module that the broker routed to a service: from the
\* module itself or from a client behind it
ArmMsgs ==
    {Msg(FLUX_MSGTYPE_REQUEST, "x.y", r, OwnerUid, FLUX_ROLE_OWNER, tag, 0, <<>>) :
        r \in {<<uuid_str>>, <<ClientId, uuid_str>>}, tag \in 1..2}

api_disconnect_arm(msg, cb, fault) ==
    /\ BrokerFree
    /\ LET r == module_disconnect_arm(disconnect, msg, cb, fault)
       IN  /\ disconnect' = r.disconnect
           /\ lastArm' = [called |-> TRUE, msg |-> msg, cb |-> cb, fault |-> fault,
                          rc |-> r.rc]
    /\ UNCHANGED <<recVars, thrVars, chanVars, histVars>>
    /\ UNCHANGED <<admVars, lastSet, dlog, mainret, cancel_req, lastApi, servVars>>
    /\ UNCHANGED disc_sent

NextDisc ==
    \/ \E m \in ArmMsgs, cb \in ArmCbs, f \in ArmFaults : api_disconnect_arm(m, cb, f)
    \/ \E ok \in BOOLEAN : module_start(ok)
    \/ module_cb("none")
    \/ normal_thread_start
    \/ main_return(0, 0)
    \/ normal_thread_end
    \/ module_destroy_join
    \/ module_destroy

SpecDisc == Init /\ [][NextDisc]_vars

\* the topics of the requests the router matches
MatchTopics == {"a.x", "b.y", "c.z"}

\* servhash_match: the owner of the first entry whose glob "<name>.*"
\* matches the topic of the request
servhash_match(table, topic) ==
    LET hits == {i \in 1..Len(table) :
                    table[i].present /\ strstarts(topic, ServNames[i] \o ".")}
    IN  IF hits = {} THEN [rc |-> -1, errno |-> ENOENT, uuid |-> ""]
        ELSE [rc |-> 0, errno |-> 0, uuid |-> table[FirstOf(hits)].uuid]

(***************************************************************************)
(* Claims.                                                                 *)
(***************************************************************************)
Sent == lastSend.called /\ lastSend.msg # NoMsg
Transmitted == Sent /\ lastSend.out # NoMsg
Returned == lastRecv.called /\ lastRecv.msg # NoMsg

\* C1 as stated: the status is one of the four states and no sequence of
\* module_set_status calls moves it backward in INIT < RUNNING < FINALIZING <
\* EXITED.
C1_NeverBackward ==
    [][status' \in ModStates /\ status' >= status]_vars

\* C1 amended: the status is one of the four states, INIT is never re-entered
\* and EXITED is never left; the one backward move module_set_status lets
\* through is FINALIZING to RUNNING.
C1_BackwardOnlyToRunning ==
    [][/\ status' \in ModStates
       /\ \/ status' >= status
          \/ status = FLUX_MODSTATE_FINALIZING /\ status' = FLUX_MODSTATE_RUNNING]_vars

\* a call on an EXITED record has been stopped by the assertion
C1_Witness == status = FLUX_MODSTATE_EXITED /\ aborted

\* C4: a muted module_sendmsg transmits only a RESPONSE with topic
\* broker.module-status; any other message fails with ENOSYS and leaves the
\* channel alone; such a RESPONSE, when no step of the call fails, is
\* transmitted.
C4_MutedSend ==
    (Sent /\ lastSend.muted /\ lastSend.fault # "decode") =>
        LET m == lastSend.msg
            status_response == m.type = FLUX_MSGTYPE_RESPONSE /\ m.topic = StatusTopic
        IN  /\ lastSend.out # NoMsg => status_response
            /\ ~status_response =>
                   lastSend.rc = -1 /\ lastSend.errno = ENOSYS /\ lastSend.out = NoMsg
            /\ (status_response /\ lastSend.fault = "none" /\ m.route # <<>>) =>
                   lastSend.rc = 0 /\ lastSend.out # NoMsg

\* a muted REQUEST with topic "x.y" has failed with ENOSYS
C4_Witness ==
    /\ Sent /\ lastSend.muted
    /\ lastSend.msg.type = FLUX_MSGTYPE_REQUEST /\ lastSend.msg.topic = "x.y"
    /\ lastSend.rc = -1 /\ lastSend.errno = ENOSYS

\* C5: a transmitted REQUEST is the message passed in with parent_uuid pushed
\* on top of its route stack and nothing else changed.
C5_RequestPushesParent ==
    (Transmitted /\ lastSend.msg.type = FLUX_MSGTYPE_REQUEST) =>
        /\ lastSend.out.route # <<>>
        /\ Top(lastSend.out.route) = parent_uuid_str
        /\ Below(lastSend.out.route) = lastSend.msg.route
        /\ SameButRoute(lastSend.out, lastSend.msg)

\* a REQUEST with a route entry of its own has been transmitted
C5_Witness ==
    /\ Transmitted /\ lastSend.msg.type = FLUX_MSGTYPE_REQUEST
    /\ Len(lastSend.msg.route) = 1 /\ Len(lastSend.out.route) = 2

\* C6: a transmitted RESPONSE has the route stack of the message passed in
\* without its last entry: one entry shorter, the rest in order.
C6_ResponsePopsLast ==
    (Transmitted /\ lastSend.msg.type = FLUX_MSGTYPE_RESPONSE) =>
        /\ Len(lastSend.out.route) = Len(lastSend.msg.route) - 1
        /\ lastSend.out.route = Below(lastSend.msg.route)
        /\ SameButRoute(lastSend.out, lastSend.msg)

\* a RESPONSE with two route entries has been transmitted with one
C6_Witness ==
    /\ Transmitted /\ lastSend.msg.type = FLUX_MSGTYPE_RESPONSE
    /\ Len(lastSend.msg.route) = 2 /\ lastSend.out.route = <<ClientId>>

\* C7: module_recvmsg returns a RESPONSE without its last route entry, a
\* REQUEST or EVENT with the module's uuid pushed on top, and any other type
\* with its route stack unchanged.
C7_RecvRoute ==
    Returned =>
        LET raw == lastRecv.raw
            msg == lastRecv.msg
        IN  /\ raw.type = FLUX_MSGTYPE_RESPONSE =>
                   Len(raw.route) > 0 /\ msg.route = Below(raw.route)
            /\ raw.type \in {FLUX_MSGTYPE_REQUEST, FLUX_MSGTYPE_EVENT} =>
                   /\ msg.route # <<>>
                   /\ Top(msg.route) = uuid_str /\ Below(msg.route) = raw.route
            /\ raw.type \notin {FLUX_MSGTYPE_RESPONSE, FLUX_MSGTYPE_REQUEST,
                                FLUX_MSGTYPE_EVENT} =>
                   msg.route = raw.route
            /\ msg.type = raw.type /\ msg.topic = raw.topic /\ msg.payload = raw.payload

\* an EVENT with a route entry of its own has been returned
C7_Witness ==
    /\ Returned /\ lastRecv.raw.type = FLUX_MSGTYPE_EVENT
    /\ lastRecv.raw.route = <<ClientId>> /\ Len(lastRecv.msg.route) = 2

\* C8: the returned userid is the channel's when the received userid is
\* UNKNOWN and the received userid otherwise; the returned rolemask is the
\* channel's when the received rolemask is NONE and the received one otherwise.
C8_RecvCred ==
    Returned =>
        /\ lastRecv.msg.userid = IF lastRecv.raw.userid = FLUX_USERID_UNKNOWN
                                 THEN p_cred.userid
                                 ELSE lastRecv.raw.userid
        /\ lastRecv.msg.rolemask = IF lastRecv.raw.rolemask = FLUX_ROLE_NONE
                                   THEN p_cred.rolemask
                                   ELSE lastRecv.raw.rolemask

\* a message with another user's userid and no rolemask has been returned
C8_Witness ==
    /\ Returned /\ lastRecv.raw.userid = GuestUid
    /\ lastRecv.raw.rolemask = FLUX_ROLE_NONE
    /\ lastRecv.msg.userid = GuestUid /\ lastRecv.msg.rolemask = p_cred.rolemask

\* C9 as stated: every message module_recvmsg returns has the OWNER bit in its
\* rolemask.
C9_AlwaysOwner == Returned => HasOwner(lastRecv.msg.rolemask)

\* C9 amended: the returned rolemask has the OWNER bit exactly when the module
\* left the rolemask empty or set the OWNER bit itself; a rolemask without the
\* OWNER bit that the module put on the message is returned as it is.
C9_OwnerUnlessAsserted ==
    Returned =>
        /\ HasOwner(p_cred.rolemask)
        /\ HasOwner(lastRecv.msg.rolemask) <=>
               (lastRecv.raw.rolemask = FLUX_ROLE_NONE \/ HasOwner(lastRecv.raw.rolemask))

\* a message sent with no rolemask has been returned with the OWNER bit
C9_Witness ==
    /\ Returned /\ lastRecv.raw.rolemask = FLUX_ROLE_NONE
    /\ HasOwner(lastRecv.msg.rolemask)

Drained == pc \in {"exited", "done", "returned"}

\* a REQUEST handed to module_sendmsg after the FINALIZING report was answered
LateRequest == Sent /\ lastSend.late /\ lastSend.msg.type = FLUX_MSGTYPE_REQUEST

\* C3 as stated: a REQUEST dispatched after the FINALIZING report was
\* acknowledged is answered by the drain step, so it reaches the module's
\* receive queue.
C3_LateRequestReachesDrain == LateRequest => lastSend.out # NoMsg

\* C3 amended: a REQUEST dispatched after the acknowledgment is refused by
\* module_sendmsg with ENOSYS and never reaches the module; the drain step
\* answers with ENOSYS the requests transmitted before the module was muted,
\* and after a successful handshake leaves none of them unanswered.
C3_LateRequestRefused ==
    /\ LateRequest =>
           lastSend.rc = -1 /\ lastSend.errno = ENOSYS /\ lastSend.out = NoMsg
    /\ lastDrain.resp # NoMsg =>
           /\ lastDrain.req.type = FLUX_MSGTYPE_REQUEST
           /\ lastDrain.resp.type = FLUX_MSGTYPE_RESPONSE
           /\ lastDrain.resp.errnum = ENOSYS
           /\ lastDrain.resp.topic = lastDrain.req.topic
           /\ lastDrain.resp.route = lastDrain.req.route
    /\ (fin_rc = 0 /\ Drained) =>
           \A i \in 1..Len(toMod) : toMod[i].type # FLUX_MSGTYPE_REQUEST

\* the drain step has answered an earlier request and a request dispatched
\* after the acknowledgment has been refused
C3_Witness ==
    /\ LateRequest /\ lastSend.errno = ENOSYS
    /\ fin_rc = 0 /\ lastDrain.resp # NoMsg

\* the reply to a request the broker sent, as module_recvmsg returned it
ReplyReturned ==
    /\ Returned
    /\ lastRecv.msg.type = FLUX_MSGTYPE_RESPONSE
    /\ lastRecv.msg.orig # <<>>

\* a request the broker sent, on its way to the module, is the request passed
\* to module_sendmsg with parent_uuid on top of its route stack
RequestArrives ==
    \A i \in 1..Len(toMod) :
        (toMod[i].type = FLUX_MSGTYPE_REQUEST /\ toMod[i].orig # <<>>) =>
            /\ toMod[i].route # <<>>
            /\ Top(toMod[i].route) = parent_uuid_str
            /\ Below(toMod[i].route) = toMod[i].orig[1]
            /\ toMod[i].topic = toMod[i].orig[2]

\* C10 as stated: the request arrives with parent_uuid on top and its topic,
\* and the module's reply comes back with the module's uuid on top.
C10_ReplyTopIsUuid ==
    /\ RequestArrives
    /\ ReplyReturned =>
           lastRecv.msg.route # <<>> /\ Top(lastRecv.msg.route) = uuid_str

\* C10 amended: the request arrives with parent_uuid on top and its topic, and
\* the module's reply comes back with the route stack and topic the request
\* had when the broker passed it to module_sendmsg: parent_uuid is popped and
\* the module's uuid is not pushed.
C10_ReplyRouteIsRequestRoute ==
    /\ RequestArrives
    /\ ReplyReturned =>
           /\ lastRecv.msg.route = lastRecv.msg.orig[1]
           /\ lastRecv.msg.topic = lastRecv.msg.orig[2]

\* the broker has pulled the reply to a request it sent with topic "x.y"
C10_Witness ==
    /\ ReplyReturned
    /\ lastRecv.msg.topic = "x.y"
    /\ lastRecv.raw.route = <<ClientId, parent_uuid_str>>

\* C16: a module_set_status call that passes the assertions leaves the new
\* status in p->status and, when a status callback is registered, invokes it
\* exactly once, with the previous status, p->status holding the new status;
\* with no callback registered the status is updated and nothing is invoked.
C16_StatusCallback ==
    (lastSet.called /\ ~lastSet.asserted) =>
        /\ status = lastSet.new
        /\ Len(lastSet.cb) = IF lastSet.cbset THEN 1 ELSE 0
        /\ lastSet.cbset =>
               /\ lastSet.cb[1].prev = lastSet.prev
               /\ lastSet.cb[1].cur = lastSet.new

\* the registered callback has been invoked for RUNNING -> FINALIZING
C16_Witness ==
    /\ lastSet.called /\ lastSet.cbset
    /\ lastSet.prev = FLUX_MODSTATE_RUNNING /\ lastSet.new = FLUX_MODSTATE_FINALIZING
    /\ lastSet.cb # <<>> /\ status = FLUX_MODSTATE_FINALIZING

\* the last entry of a sequence that has one, NoMsg otherwise
LastOr(seq) == IF seq = <<>> THEN NoMsg ELSE seq[Len(seq)]

\* C17 as stated: module_pop_rmmod returns the pending messages oldest first,
\* and nothing when none is pending.
C17_PopOldestFirst ==
    lastPop.op = "rmmod" =>
        lastPop.msg = IF lastPop.order = <<>> THEN NoMsg ELSE Head(lastPop.order)

\* C17 amended: the pending remove-module list is a stack: module_pop_rmmod
\* returns the message pushed last among those still pending (newest first),
\* and nothing when none is pending.
C17_PopNewestFirst ==
    /\ lastPop.op = "rmmod" => lastPop.msg = LastOr(lastPop.order)
    /\ Len(rmmod) = Len(pushed.rmmod)
    /\ \A i \in 1..Len(rmmod) : rmmod[i] = pushed.rmmod[Len(rmmod) - i + 1]

\* with two messages pending, the one pushed second has been popped
C17_Witness ==
    /\ lastPop.op = "rmmod" /\ Len(lastPop.order) = 2
    /\ lastPop.msg = lastPop.order[2]
    /\ rmmod = <<lastPop.order[1]>>

\* C18: the install-module slot holds the copy made by the last successful
\* module_push_insmod since the last pop, or nothing; module_pop_insmod
\* returns it and empties the slot, so that a pop with no push since the last
\* one returns nothing.
C18_InsmodSlot ==
    /\ insmod = LastOr(pushed.insmod)
    /\ lastPop.op = "insmod" => lastPop.msg = LastOr(lastPop.order)
    /\ (lastPop.op = "insmod" /\ pushed.insmod = <<>>) => insmod = NoMsg

\* after two pushes, a pop has returned the second message and left the slot
\* empty
C18_Witness ==
    /\ lastPop.op = "insmod" /\ Len(lastPop.order) = 2
    /\ lastPop.order[1] # lastPop.order[2]
    /\ lastPop.msg = lastPop.order[2]
    /\ insmod = NoMsg

\* some topic in the subscription list is a prefix of the topic of the event
\* last cast
CastMatches ==
    \E i \in 1..Len(subs) :
        /\ Len(subs[i]) <= Len(lastCast.msg.topic)
        /\ SubSeq(lastCast.msg.topic, 1, Len(subs[i])) = subs[i]

\* C11: module_event_cast puts the event on the channel only if some topic in
\* the subscription list is a prefix of the event's topic; with no such topic
\* nothing is sent and the call succeeds; with one, the event is handed to
\* module_sendmsg and, the module not being muted and the send not failing,
\* is delivered as it is.
C11_EventCast ==
    (lastCast.called /\ lastCast.fault # "topic") =>
        /\ lastCast.out # NoMsg => CastMatches
        /\ ~CastMatches => lastCast.rc = 0 /\ lastCast.out = NoMsg
        /\ (CastMatches /\ ~lastCast.muted /\ lastCast.fault = "none") =>
               lastCast.rc = 0 /\ lastCast.out = lastCast.msg
        /\ CastMatches => (lastCast.rc = 0 <=> lastCast.out # NoMsg)

\* with "job." and "log." subscribed, an event "job.state.RUN" has been
\* delivered
C11_Witness ==
    /\ \E i, j \in 1..Len(subs) : subs[i] = "job." /\ subs[j] = "log."
    /\ lastCast.called /\ lastCast.msg.topic = "job.state.RUN"
    /\ lastCast.out # NoMsg /\ Len(toMod) > 0

\* the number of entries of list equal to topic
Count(list, topic) == Cardinality({i \in 1..Len(list) : list[i] = topic})

\* C19: module_subscribe adds one entry for the topic whether or not it is
\* already there; module_unsubscribe takes out the first entry equal to the
\* topic and leaves every other entry, other copies of the topic included,
\* where it is; with no entry equal to the topic the list is left unchanged.
C19_SubsMultiset ==
    /\ (lastSub.op = "subscribe" /\ lastSub.rc = 0) =>
           \A tp \in SubTopics :
               Count(subs, tp) = Count(lastSub.before, tp)
                                 + (IF tp = lastSub.topic THEN 1 ELSE 0)
    /\ (lastSub.op = "subscribe" /\ lastSub.rc < 0) => subs = lastSub.before
    /\ lastSub.op = "unsubscribe" =>
           LET had == Count(lastSub.before, lastSub.topic)
               first == StepIndex(lastSub.before, lastSub.topic)
           IN  /\ \A tp \in SubTopics :
                      Count(subs, tp) = Count(lastSub.before, tp)
                                        - (IF tp = lastSub.topic /\ had > 0 THEN 1 ELSE 0)
               /\ had = 0 => subs = lastSub.before
               /\ had > 0 =>
                      subs = SubSeq(lastSub.before, 1, first - 1)
                             \o SubSeq(lastSub.before, first + 1, Len(lastSub.before))

\* a topic subscribed twice has been unsubscribed once and is still there
C19_Witness ==
    /\ lastSub.op = "unsubscribe"
    /\ Count(lastSub.before, lastSub.topic) = 2
    /\ Count(subs, lastSub.topic) = 1

\* the errnum the module thread is to report for what the entry point returned
ExpectedErrnum ==
    IF mainret.rc < 0
    THEN IF mainret.errno = 0 THEN ECONNRESET ELSE mainret.errno
    ELSE 0

\* a status report that says EXITED
IsExitedReport(m) ==
    IsStatusRequest(m) /\ m.payload[1] = FLUX_MODSTATE_EXITED

\* C20: the EXITED status report the module thread sends carries errno as the
\* entry point left it when it returned failure, ECONNRESET if that was zero,
\* and 0 when it returned success; once the broker has handled the report the
\* stored errnum is the reported value.
C20_ExitedErrnum ==
    /\ \A i \in 1..Len(toBroker) :
           IsExitedReport(toBroker[i]) =>
               /\ mainret.returned
               /\ toBroker[i].payload = <<FLUX_MODSTATE_EXITED, ExpectedErrnum>>
    /\ (lastRecv.called /\ IsExitedReport(lastRecv.msg)) =>
           /\ lastRecv.msg.payload[2] = ExpectedErrnum
           /\ errnum = ExpectedErrnum
           /\ module_get_errnum = lastRecv.msg.payload[2]

\* the entry point returned -1 with errno EIO and the broker has stored EIO
C20_Witness ==
    /\ lastRecv.called /\ IsExitedReport(lastRecv.msg)
    /\ mainret.rc = -1 /\ mainret.errno = EIO
    /\ status = FLUX_MODSTATE_EXITED /\ errnum = EIO

\* module_destroy has returned
Destroyed == ~alive

\* module_destroy made the call module_set_status (p, FLUX_MODSTATE_EXITED)
Forced == StepIndex(dlog, "module_set_status") # 0

\* step a of module_destroy was made, and before step b
Before(a, b) == 0 < StepIndex(dlog, a) /\ StepIndex(dlog, a) < StepIndex(dlog, b)

\* C13 as stated: a record that was destroyed with a status other than EXITED
\* has had its thread joined and its status set to EXITED.
C13_DestroyAlwaysForcesExited ==
    Destroyed => status = FLUX_MODSTATE_EXITED /\ t = "joined"

\* C13 amended: module_destroy joins the thread and forces EXITED only on a
\* record whose thread was started: there, when the status is not EXITED
\* after the join, it is set to EXITED (the status callback, if registered,
\* invoked with the previous status) before any resource is released, and
\* when it is EXITED already no call is made; a record whose thread was never
\* started is released with the status it has.
C13_DestroyForcesExitedIfStarted ==
    Destroyed =>
        /\ t = "joined" =>
               /\ status = FLUX_MODSTATE_EXITED
               /\ StepIndex(dlog, "pthread_join") = 1
        /\ Forced =>
               /\ t = "joined"
               /\ Before("pthread_join", "module_set_status")
               /\ \A i \in 1..Len(dlog) :
                      dlog[i] \notin {"pthread_join", "module_set_status"} =>
                          StepIndex(dlog, "module_set_status") < i
               /\ lastSet.called /\ ~lastSet.asserted
               /\ lastSet.prev # FLUX_MODSTATE_EXITED
               /\ lastSet.new = FLUX_MODSTATE_EXITED
               /\ lastSet.cbset =>
                      lastSet.cb = <<[prev |-> lastSet.prev,
                                      cur |-> FLUX_MODSTATE_EXITED]>>
        /\ (t = "joined" /\ ~Forced) =>
               /\ lastSet.called /\ lastSet.new = FLUX_MODSTATE_EXITED
               /\ lastRecv.called /\ IsExitedReport(lastRecv.msg)
        /\ t # "joined" =>
               /\ status = FLUX_MODSTATE_INIT
               /\ StepIndex(dlog, "pthread_join") = 0
               /\ ~lastSet.called

\* a RUNNING record with a status callback has been destroyed: the thread
\* was joined and the callback invoked for RUNNING -> EXITED
C13_Witness ==
    /\ Destroyed /\ t = "joined" /\ Forced
    /\ lastSet.prev = FLUX_MODSTATE_RUNNING /\ lastSet.cb # <<>>
    /\ status = FLUX_MODSTATE_EXITED

\* C14 as stated: while module_destroy joins the thread, the watcher of the
\* broker end of the channel is no longer started.
C14_WatcherStoppedBeforeJoin ==
    bpc = "join" => watcher # "started"

\* C14 amended: module_destroy joins the thread with the watcher still
\* started, and stops and destroys the watcher after the join (and after the
\* forced EXITED), before it destroys the socket and frees the record.
C14_WatcherStoppedAfterJoin ==
    /\ bpc = "join" => watcher = "started" /\ alive
    /\ (Destroyed /\ t = "joined") =>
           /\ Before("pthread_join", "flux_watcher_stop")
           /\ Before("flux_watcher_stop", "flux_watcher_destroy")
           /\ Before("flux_watcher_destroy", "zsock_destroy")
           /\ Before("zsock_destroy", "free")
           /\ Forced => Before("module_set_status", "flux_watcher_stop")

\* module_destroy is waiting in pthread_join for a thread that is still in
\* the entry point, the watcher started
C14_Witness ==
    bpc = "join" /\ pc = "main" /\ watcher = "started"

\* what holds of a record that module_destroy has freed
Released ==
    /\ watcher = "destroyed"
    /\ bpc = "idle"
    /\ dlog[Len(dlog)] = "free"
    /\ Before("disconnect_destroy", "free")
    /\ Before("flux_watcher_stop", "free")
    /\ Before("zsock_destroy", "free")
    /\ t = "joined" => pc = "returned"
    /\ Forced => Before("module_set_status", "free")

\* C15: after module_destroy has returned nothing is invoked with the record:
\* neither module_cb and the poller callback, nor the status callback; the
\* status callback and the disconnect tracker's callbacks that module_destroy
\* triggers come before the record is freed, and so do the stop of the
\* watcher and the close of the broker end of the channel.
C15_NoCallbackAfterDestroy ==
    [][/\ Destroyed => (lastRecv' = lastRecv /\ lastSet' = lastSet /\ Destroyed')
       /\ Destroyed' => Released']_vars

\* a record has been destroyed with a message of the module still unread on
\* the channel
C15_Witness ==
    /\ Destroyed /\ t = "joined" /\ toBroker # <<>>
    /\ watcher = "destroyed"

C21_CancelTolerant ==
    [][(lastApi'.op = "module_cancel" /\ lastApi' # lastApi) =>
           LET started == lastApi'.args[1]
               e == lastApi'.args[2]
           IN  /\ lastApi'.rc = IF started /\ e \notin {0, ESRCH} THEN -1 ELSE 0
               /\ UNCHANGED <<status, muted, rmmod, insmod>>]_vars

\* module_cancel has returned 0 for a thread that had ended (ESRCH), on a
\* record with a pending insmod request
C21_Witness ==
    /\ lastApi.op = "module_cancel" /\ lastApi.args = <<TRUE, ESRCH>>
    /\ lastApi.rc = 0
    /\ insmod # NoMsg

\* the module_create call that has just been made
Created == lastApi.op = "module_create"
CreateArg(i) == lastApi.args[i]

\* C22: when the artifact exports a non-null mod_name that differs from the
\* record's name (the name given, or else the name derived from the path) and
\* no earlier step of module_create has failed, module_create returns no
\* record and errno is EINVAL; the record it had built is torn down with no
\* thread joined, no status set and no status callback made.  A record that
\* is returned has status INIT.
C22_NameMismatch ==
    [][(Created' /\ ~Created) =>
           LET name == CreateArg(1)'
               path == CreateArg(2)'
               mod_name == CreateArg(3)'
               fault == CreateArg(4)'
               p_name == IF name # NULL THEN name ELSE module_name_from_path(path)
           IN  /\ (/\ mod_name \notin {NoSymbol, NULL}
                   /\ mod_name # p_name
                   /\ ~FailsBefore(fault, "mod_name")) =>
                      /\ lastApi'.rc = -1 /\ lastApi'.errno = EINVAL
                      /\ ~alive'
                      /\ StepIndex(lastApi'.steps, "free") # 0
                      /\ StepIndex(lastApi'.steps, "pthread_join") = 0
                      /\ StepIndex(lastApi'.steps, "module_set_status") = 0
                      /\ t' = "none" /\ lastSet' = NoSet
               /\ alive' => (lastApi'.rc = 0 /\ status' = FLUX_MODSTATE_INIT)]_vars

\* the artifact of ./bar.so exports mod_name "foo", no name was given, and
\* module_create has failed with EINVAL
C22_Witness ==
    /\ Created
    /\ CreateArg(1) = NULL /\ CreateArg(2) = "./bar.so" /\ CreateArg(3) = "foo"
    /\ CreateArg(4) = "none"
    /\ lastApi.rc = -1 /\ lastApi.errno = EINVAL /\ ~alive

\* an entry has been called with a NULL record or a NULL message
NullCall == lastApi.op \in Entries /\ lastApi.args \in {<<"record">>, <<"message">>}

\* C23 as stated: an entry given a NULL record or a NULL message fails with
\* EINVAL: it does not crash and it does not report success.
C23_NullArgsRejected ==
    NullCall => (~lastApi.crashed /\ lastApi.rc = -1 /\ lastApi.errno = EINVAL)

\* C23 amended: the entries do not fail with EINVAL on a NULL argument.
\* module_sendmsg given a NULL message returns 0, and a getter given a NULL
\* record returns its default value (0 or "unknown"); neither sets errno,
\* crashes or changes the record.  No other entry tests its record.
C23_NullArgsTolerated ==
    [][(NullCall' /\ lastApi' # lastApi) =>
           LET entry == lastApi'.op
               which == lastApi'.args[1]
           IN  /\ ((entry = "module_sendmsg" /\ which = "message")
                      \/ (entry \in Getters /\ which = "record")) =>
                      /\ ~lastApi'.crashed /\ lastApi'.rc = 0 /\ lastApi'.errno = 0
                      /\ UNCHANGED <<recVars, thrVars, chanVars, admVars>>
               /\ lastApi'.crashed => (which = "record" \/ entry # "module_sendmsg")]_vars

\* module_sendmsg has returned 0 for a NULL message on a muted record
C23_Witness ==
    /\ NullCall /\ muted
    /\ lastApi.op = "module_sendmsg" /\ lastApi.args = <<"message">>
    /\ lastApi.rc = 0 /\ ~lastApi.crashed

\* a call of op on the table has just been made
ServStep(op) == lastServ'.op = op /\ lastServ' # lastServ

\* the requests sent in this step
NewlySent == SubSeq(upstream', Len(upstream) + 1, Len(upstream'))

\* C24: servhash_add for a name that has an entry, pending or live and owned
\* by any uuid, fails with EEXIST, sends nothing and leaves the table as it
\* was; a name's entry changes its owner only through being deleted.
C24_UniqueByName ==
    [][/\ (ServStep("add") /\ lastServ'.fault # "null"
              /\ zhashx_lookup(services, lastServ'.name).present) =>
              /\ lastServ'.rc = -1 /\ lastServ'.errno = EEXIST
              /\ services' = services /\ upstream' = upstream
       /\ \A i \in 1..Len(ServNames) :
              (services[i].present /\ services'[i].present) =>
                  services'[i].uuid = services[i].uuid]_vars

\* servhash_add by u2 has failed with EEXIST for a name whose entry, owned by
\* u1, is live
C24_Witness ==
    /\ lastServ.op = "add" /\ lastServ.name = "a" /\ lastServ.uuid = "u2"
    /\ lastServ.rc = -1 /\ lastServ.errno = EEXIST
    /\ services[1].present /\ services[1].uuid = "u1" /\ services[1].live

\* C25: servhash_remove with a uuid that is not the owner's, or for a name
\* with no entry, fails with ENOENT, sends nothing upstream and leaves the
\* table as it was.
C25_RemoveNotOwner ==
    [][(ServStep("remove") /\ lastServ'.fault # "null") =>
           LET entry == zhashx_lookup(services, lastServ'.name)
           IN  (~entry.present \/ entry.uuid # lastServ'.uuid) =>
                   /\ lastServ'.rc = -1 /\ lastServ'.errno = ENOENT
                   /\ NewlySent = <<>>
                   /\ services' = services]_vars

\* servhash_remove by u2 has failed with ENOENT for a live entry that u1 owns
C25_Witness ==
    /\ lastServ.op = "remove" /\ lastServ.name = "a" /\ lastServ.uuid = "u2"
    /\ lastServ.rc = -1 /\ lastServ.errno = ENOENT
    /\ services[1].present /\ services[1].uuid = "u1" /\ services[1].live

\* the entry of slot i is torn down in this step
TornDown(i) == services[i].present /\ services'[i] # services[i]
                   /\ (~services'[i].present \/ services'[i].f_add # services[i].f_add)

\* an unregister for the name of slot i is sent in this step
UnregisterSent(i) ==
    \E k \in 1..Len(NewlySent) :
        NewlySent[k].op = "remove" /\ NewlySent[k].name = ServNames[i]

AddPending(entry) == ~entry.live /\ entry.f_add # 0 /\ ~entry.add_ready
RemovePending(entry) == entry.f_remove # 0
LiveNoRemove(entry) == entry.live /\ entry.f_remove = 0

\* C26 as stated: an entry torn down while its service-add or its
\* service-remove is pending upstream, or while it is live with no remove
\* sent, has an unregister for its name sent as it is torn down.  (An entry
\* that the continuation of its own request deletes is not one of these: the
\* response has arrived.)
C26_UnregisterWhenPending ==
    [][\A i \in 1..Len(ServNames) :
           (/\ TornDown(i)
            /\ lastServ'.op \notin {"add_continuation", "remove_continuation"}
            /\ \/ AddPending(services[i])
               \/ RemovePending(services[i])
               \/ LiveNoRemove(services[i])) => UnregisterSent(i)]_vars

\* nothing is on its way to or from the upstream broker
Quiet == upstream = <<>> /\ replies = <<>>

\* C26 amended: an entry torn down while its service-add is pending, or while
\* it is live with no remove sent, has an unregister for its name sent as it
\* is torn down; an entry whose service-remove has been sent and whose
\* service-add is not pending is torn down with nothing sent, that remove
\* being the unregistration.  Either way, once nothing is in flight, the
\* upstream broker holds no registration for a name that has no entry.
C26_UnregisterUnlessRemoveSent ==
    /\ [][\A i \in 1..Len(ServNames) :
              (TornDown(i) /\ lastServ'.op \in {"disconnect", "destroy"}) =>
                  /\ (AddPending(services[i]) \/ LiveNoRemove(services[i])) =>
                         UnregisterSent(i)
                  /\ (RemovePending(services[i]) /\ ~AddPending(services[i])) =>
                         ~UnregisterSent(i)]_vars
    /\ [](Quiet => \A i \in 1..Len(ServNames) :
                       ServNames[i] \in up_services => services[i].present)

\* the table has been destroyed with one entry live and the other's add
\* pending, an unregister has been sent for each, and the upstream broker has
\* dropped both
C26_Witness ==
    /\ lastServ.op = "destroy" /\ Len(lastServ.sent) = 2
    /\ lastServ.before[1].live /\ AddPending(lastServ.before[2])
    /\ Quiet /\ up_services = {}

\* C27: no call of module_set_status that the host makes (for a status
\* report of the module thread, or in module_destroy) trips one of its two
\* assertions: the new status is never INIT and the status it replaces is
\* never EXITED.  module_destroy makes its call only when the status is not
\* EXITED after the join; when the thread's EXITED report has been handled
\* before, it makes none.
C27_HostKeepsAssertions ==
    /\ ~aborted
    /\ lastSet.called =>
           /\ ~lastSet.asserted
           /\ lastSet.new # FLUX_MODSTATE_INIT
           /\ lastSet.prev # FLUX_MODSTATE_EXITED
    /\ (Destroyed /\ lastRecv.called /\ IsExitedReport(lastRecv.msg)) => ~Forced
    /\ (Destroyed /\ Forced) => status = FLUX_MODSTATE_EXITED

\* the EXITED report was handled, FINALIZING -> EXITED, and the record was
\* then destroyed with the thread joined and no call of module_set_status
C27_Witness ==
    /\ Destroyed /\ t = "joined" /\ ~Forced
    /\ lastRecv.called /\ IsExitedReport(lastRecv.msg)
    /\ lastSet.prev = FLUX_MODSTATE_FINALIZING /\ lastSet.new = FLUX_MODSTATE_EXITED

\* the positions of module_thread, in the order of its code
ThreadOrder == <<"none", "open", "attr", "conf", "modservice", "sigmask", "main",
                 "finalizing", "finalizing_wait", "drain", "exited", "done",
                 "returned">>
PcRank(at) == StepIndex(ThreadOrder, at)

\* the module thread puts msg on the channel in this step
ThreadSends(msg) == toBroker' = Append(toBroker, msg)

\* C28: after the entry point returns the module thread sends the FINALIZING
\* report and has its response, or the failure of the RPC, before it takes
\* the first residual request; it sends the EXITED report only when the drain
\* has found no request left; it closes the handle last; and it never goes
\* back, so that no step is made twice.
C28_ShutdownOrder ==
    [][/\ PcRank(pc) # 0 /\ PcRank(pc') >= PcRank(pc)
       /\ (pc = "finalizing" /\ pc' # pc) =>
              \/ pc' = "finalizing_wait" /\ fin_rc' = 1
                    /\ ThreadSends(StatusRequest(FinTag, <<FLUX_MODSTATE_FINALIZING>>))
              \/ pc' = "drain" /\ fin_rc' = -1 /\ toBroker' = toBroker
       /\ (pc = "finalizing_wait" /\ pc' # pc) =>
              /\ pc' = "drain" /\ fin_rc' \in {0, -1}
              /\ fin_rc' = 0 => (acked /\ Len(toMod') = Len(toMod) - 1)
       /\ lastDrain' # lastDrain =>
              pc = "drain" /\ pc' = "drain" /\ fin_rc \in {0, -1}
       /\ (pc = "drain" /\ pc' # pc) =>
              pc' = "exited" /\ FirstRequest(toMod) = 0 /\ toMod' = toMod
       /\ (\E i \in 1..Len(toBroker') : IsExitedReport(toBroker'[i])
              /\ \A j \in 1..Len(toBroker) : ~IsExitedReport(toBroker[j])) =>
              pc = "exited" /\ pc' = "done"
       /\ h' # h =>
              \/ pc = "open" /\ h' = "open"
              \/ pc = "done" /\ pc' = "returned" /\ h' = "closed"
       /\ pc = "returned" =>
              (pc' = pc /\ h' = h /\ Len(toBroker') <= Len(toBroker))]_vars

\* the thread has returned with its handle closed after a successful
\* handshake, a drained request, and an EXITED report that is still on the
\* channel
C28_Witness ==
    /\ pc = "returned" /\ h = "closed" /\ fin_rc = 0
    /\ lastDrain.req # NoMsg
    /\ \E i \in 1..Len(toBroker) : IsExitedReport(toBroker[i])

\* one turn of the drain loop: the module thread takes a message off its
\* receive queue while it is at the loop
DrainTurn == pc = "drain" /\ Len(toMod') < Len(toMod)

\* the requests of queue, in order
Requests(queue) == SelectSeq(queue, IsRequest)
\* the other messages of queue, in order
NonRequests(queue) == SelectSeq(queue, LAMBDA m : ~IsRequest(m))

\* C29: a turn of the drain takes the first REQUEST of the receive queue and
\* nothing else, and answers it with one ENOSYS error response, or with
\* nothing when responding fails; the messages that are not requests stay in
\* the queue unanswered; a turn, failed or not, leaves the thread in the
\* loop, and the loop ends exactly when no request is left.
C29_DrainAnswersRequests ==
    [][/\ DrainTurn =>
              /\ Requests(toMod) # <<>>
              /\ lastDrain'.req = Head(Requests(toMod))
              /\ Requests(toMod') = Tail(Requests(toMod))
              /\ NonRequests(toMod') = NonRequests(toMod)
              /\ lastDrain'.turns = lastDrain.turns + 1
              /\ \/ /\ lastDrain'.failed = lastDrain.failed
                    /\ toBroker' = Append(toBroker, lastDrain'.resp)
                    /\ lastDrain'.resp.type = FLUX_MSGTYPE_RESPONSE
                    /\ lastDrain'.resp.errnum = ENOSYS
                    /\ lastDrain'.resp.matchtag = lastDrain'.req.matchtag
                    /\ lastDrain'.resp.route = lastDrain'.req.route
                 \/ /\ lastDrain'.failed = lastDrain.failed + 1
                    /\ lastDrain'.resp = NoMsg
                    /\ toBroker' = toBroker
              /\ pc' = "drain"
       /\ (pc = "drain" /\ pc' # "drain") => Requests(toMod) = <<>>
       /\ (pc = "drain" /\ pc' = "exited") => NonRequests(toMod') = NonRequests(toMod)]_vars

\* the drain has ended after two turns, the first one failing to respond
\* and the second one answering
C29_Witness ==
    /\ pc = "exited"
    /\ lastDrain.turns = 2 /\ lastDrain.failed = 1 /\ lastDrain.resp # NoMsg

\* the steps of module_thread before the entry point that the claim names
StartupSteps == {"open", "attr", "conf", "modservice"}

\* the module thread has sent nothing since it was started
NothingSent == toBroker = <<>> /\ ~lastRecv.called

\* the module thread left its startup on a failure of one of StartupSteps:
\* it is at done: or past it, and has not sent the RUNNING report that the
\* last of these steps sends when it succeeds
StartupFailed == pc \in {"done", "returned"} /\ NothingSent

\* C30 as stated: after a failure of a startup step the broker ends up with
\* the module marked EXITED.
C30_StartupFailureMarksExited ==
    StartupFailed ~> (status = FLUX_MODSTATE_EXITED)

\* C30 amended: a failing startup step sends nothing and takes the thread to
\* done:, from where it only closes the handle and returns: the entry point
\* is not invoked, nothing is drained and no status report is sent; the
\* status stays INIT, and becomes EXITED only when module_destroy joins the
\* thread and forces it.
C30_StartupFailureNoTransition ==
    [][/\ (pc \in StartupSteps /\ pc' = "done") =>
              /\ NothingSent'
              /\ h' = h /\ status' = status
       /\ StartupFailed =>
              /\ pc' \in {"done", "returned"} /\ NothingSent'
              /\ mainret' = mainret /\ ~mainret.returned
              /\ lastDrain' = lastDrain /\ lastDrain = NoDrain
              /\ Len(toMod') >= Len(toMod)
              /\ (pc = "done" /\ pc' = "returned") => h' # "open"
              /\ status = IF Forced THEN FLUX_MODSTATE_EXITED ELSE FLUX_MODSTATE_INIT
              /\ status' # status =>
                     /\ bpc = "join" /\ pc = "returned"
                     /\ status' = FLUX_MODSTATE_EXITED
                     /\ Forced' /\ t' = "joined"
              /\ Destroyed' => status' = FLUX_MODSTATE_EXITED]_vars

\* the attribute cache could not be primed: the thread closed its handle and
\* returned with the status INIT all along, and module_destroy has joined
\* it and forced EXITED
C30_Witness ==
    /\ StartupFailed /\ pc = "returned" /\ h = "closed"
    /\ Destroyed /\ Forced /\ lastSet.prev = FLUX_MODSTATE_INIT
    /\ status = FLUX_MODSTATE_EXITED

\* module_finalizing has returned -1 and the thread is at the drain
FinalizingFailed == fin_rc = -1 /\ pc = "drain"

\* the EXITED status report that carries the errnum captured from the entry
\* point
ExitedReport ==
    StatusRequest(FLUX_MATCHTAG_NONE, <<FLUX_MODSTATE_EXITED, mod_main_errno>>)

\* C31: a failure of module_finalizing takes the thread to the drain; from
\* there the thread answers the residual requests until none is left, then
\* sends the EXITED report with the captured errnum, then closes the handle
\* and returns, and it does get there.
C31_FinalizingFailureGoesOn ==
    /\ [][(fin_rc' = -1 /\ fin_rc # -1) => pc' = "drain"]_vars
    /\ [][fin_rc = -1 =>
              /\ fin_rc' = -1 /\ mod_main_errno' = mod_main_errno
              /\ (pc = "drain" /\ pc' # pc) =>
                     (pc' = "exited" /\ FirstRequest(toMod) = 0)
              /\ (pc = "drain" /\ pc' = pc /\ Len(toMod') < Len(toMod)) =>
                     /\ lastDrain'.req = toMod[FirstRequest(toMod)]
                     /\ lastDrain'.resp # NoMsg =>
                            /\ lastDrain'.resp.errnum = ENOSYS
                            /\ toBroker' = Append(toBroker, lastDrain'.resp)
              /\ (pc = "exited" /\ pc' # pc) =>
                     (pc' = "done" /\ toBroker' = Append(toBroker, ExitedReport))
              /\ (pc = "done" /\ pc' # pc) =>
                     (pc' = "returned" /\ h = "open" /\ h' = "closed")]_vars
    /\ FinalizingFailed ~> (pc = "returned" /\ h = "closed")

\* the entry point failed with EIO, the wait for the FINALIZING response
\* failed, a residual request was answered, and the broker has taken the
\* EXITED report with EIO after the thread closed its handle
C31_Witness ==
    /\ fin_rc = -1 /\ pc = "returned" /\ h = "closed"
    /\ lastDrain.turns >= 1 /\ lastDrain.resp # NoMsg
    /\ status = FLUX_MODSTATE_EXITED /\ errnum = EIO /\ mod_main_errno = EIO

\* a step of the module thread: it moves on in module_thread, or the entry
\* point takes or sends a message, or the drain loop takes a request
ThreadStep ==
    /\ pc # "none"
    /\ \/ pc' # pc
       \/ nmodsend' # nmodsend
       \/ lastDrain' # lastDrain
       \/ pc = "main" /\ Len(toMod') < Len(toMod)

\* the fields of the record other than p->h
RecordFields ==
    <<status, muted, errnum, t, watcher, alive, status_cb, rmmod, insmod, subs>>

\* C32 as stated: no step of the module thread writes a field of the record.
C32_ThreadWritesNoField ==
    [][ThreadStep => (RecordFields' = RecordFields /\ h' = h)]_vars

\* C32 amended: the only field of the record that a step of the module
\* thread writes is p->h, set when the thread opens its handle and cleared
\* when it closes it, and no step of the broker thread writes p->h; status,
\* muted, errnum, the thread id, the watcher, the status callback, the rmmod
\* and insmod messages and the subscriptions are written by the broker
\* thread only.
C32_ThreadWritesOnlyHandle ==
    [][/\ ThreadStep =>
              /\ RecordFields' = RecordFields
              /\ h' # h => \/ pc = "open" /\ h = "null" /\ h' = "open"
                           \/ pc = "done" /\ h = "open" /\ h' = "closed"
       /\ h' # h => ThreadStep
       /\ RecordFields' # RecordFields => ~ThreadStep]_vars

\* the thread has opened and closed its handle, and the status went all the
\* way to EXITED through the status reports the broker received
C32_Witness ==
    /\ pc = "returned" /\ h = "closed"
    /\ status = FLUX_MODSTATE_EXITED /\ muted /\ ~Forced

\* m and n are the same message, history fields aside
SameMsg(m, n) == SameButRoute(m, n) /\ m.route = n.route

\* C33: module_sendmsg leaves the caller's message as it was; a transmitted
\* REQUEST or RESPONSE is the duplicate, and a transmitted message of any
\* other type is the caller's message itself, with its route stack, topic,
\* credential and payload.
C33_CallerMessageUntouched ==
    Sent =>
        LET objs == lastSend.objs
            rewritten == lastSend.msg.type \in {FLUX_MSGTYPE_REQUEST,
                                                FLUX_MSGTYPE_RESPONSE}
        IN  /\ objs.msg = lastSend.msg
            /\ (lastSend.out # NoMsg) = (objs.sent # "none")
            /\ (Transmitted /\ rewritten) =>
                   objs.sent = "cpy" /\ SameMsg(lastSend.out, objs.cpy)
            /\ (Transmitted /\ ~rewritten) =>
                   objs.sent = "msg" /\ lastSend.out = lastSend.msg

\* a REQUEST with a payload was transmitted with another route stack than
\* the caller's message has
C33_Witness ==
    /\ Transmitted /\ lastSend.msg.type = FLUX_MSGTYPE_REQUEST
    /\ lastSend.msg.payload # <<>>
    /\ lastSend.out.route # lastSend.objs.msg.route

\* the module_sendmsg call failed at the copy, or at the route push or pop
SendRoutingError(call) ==
    /\ call.called /\ call.msg # NoMsg /\ call.fault # "decode"
    /\ ~(call.muted /\ sendmsg_muted_refuses(call.msg.type, call.msg.topic))
    /\ call.msg.type \in {FLUX_MSGTYPE_REQUEST, FLUX_MSGTYPE_RESPONSE}
    /\ \/ call.fault \in {"copy", "route"}
       \/ call.msg.type = FLUX_MSGTYPE_RESPONSE /\ call.msg.route = <<>>

\* the module_recvmsg call failed at the route push or pop, or at the get or
\* set of the credential
RecvRoutingError(call) ==
    /\ call.called /\ call.fault \notin {"recv", "decode"}
    /\ \/ call.fault = "cred"
       \/ call.fault = "route" /\ call.raw.type # FLUX_MSGTYPE_CONTROL
       \/ call.raw.type = FLUX_MSGTYPE_RESPONSE /\ call.raw.route = <<>>

\* what the record holds beside the channel
RecordState == <<status, muted, errnum, subs, rmmod, insmod, alive, aborted>>

\* a module_sendmsg call is made; a module_recvmsg call takes a message
SendStep == nsend' # nsend
RecvStep == lastRecv'.called /\ Len(toBroker') < Len(toBroker)

\* C34: a module_sendmsg call that fails at a routing step returns -1 and
\* puts nothing on the channel; a module_recvmsg call that fails at a routing
\* step returns NULL and the message it took is dropped; neither changes the
\* record; and whatever failed before, a call in which no step fails on a
\* message that can be routed succeeds.
C34_RoutingErrorIsLocal ==
    [][/\ (SendStep /\ SendRoutingError(lastSend')) =>
              /\ lastSend'.rc = -1 /\ lastSend'.out = NoMsg
              /\ toMod' = toMod /\ toBroker' = toBroker
              /\ RecordState' = RecordState
       /\ (SendStep /\ lastSend'.fault = "none" /\ ~muted
           /\ ~SendRoutingError(lastSend')) =>
              /\ lastSend'.rc = 0 /\ lastSend'.out # NoMsg
              /\ toMod' = Append(toMod, lastSend'.out)
       /\ (RecvStep /\ RecvRoutingError(lastRecv')) =>
              /\ lastRecv'.msg = NoMsg
              /\ toBroker' = Tail(toBroker) /\ toMod' = toMod
              /\ RecordState' = RecordState
       /\ (RecvStep /\ lastRecv'.fault = "none"
           /\ ~RecvRoutingError(lastRecv')) =>
              /\ lastRecv'.msg # NoMsg
              /\ lastRecv'.msg.type = Head(toBroker).type
              /\ toBroker' = Tail(toBroker)
              /\ RecordState' = RecordState]_vars

\* of two module_sendmsg calls on an unmuted record with an insmod request
\* parked, the first failed at a routing step and the second transmitted its
\* message; the last module_recvmsg call failed at a routing step
C34_Witness ==
    /\ nsend = 2 /\ Len(toMod) = 1 /\ Transmitted /\ ~muted
    /\ toMod[1] = lastSend.out
    /\ RecvRoutingError(lastRecv) /\ lastRecv.msg = NoMsg
    /\ insmod # NoMsg

\* the tuples recorded in tracker d
Armed(d) == {d.armed[i] : i \in 1..Len(d.armed)}

\* a module_disconnect_arm call is made
ArmStep == lastArm'.called /\ <<disconnect, lastArm>>' # <<disconnect, lastArm>>

\* module_destroy runs to its end
DestroyStep == alive /\ ~alive'

\* C35: module_disconnect_arm creates the tracker only when the record has
\* none, with the callback of that call; a call on a record that has one
\* leaves its callback and the tuples recorded so far; a call that succeeds
\* has the (sender, matchtag) of its message recorded, once.  module_destroy
\* hands one disconnect to the tracker's callback for each recorded tuple,
\* after the join and the forced EXITED (where it makes them) and before it
\* stops the watcher and closes the channel, and none on a record that has
\* no tracker; nothing else emits a disconnect.
C35_DisconnectOnDestroy ==
    [][/\ ArmStep =>
              LET tuple == <<Sender(lastArm'.msg), lastArm'.msg.matchtag>>
              IN  /\ disconnect.made =>
                         /\ disconnect'.made /\ disconnect'.cb = disconnect.cb
                         /\ Armed(disconnect) \subseteq Armed(disconnect')
                  /\ (~disconnect.made /\ disconnect'.made) =>
                         /\ disconnect'.cb = lastArm'.cb
                         /\ Armed(disconnect') \subseteq {tuple}
                  /\ lastArm'.rc = 0 =>
                         /\ disconnect'.made
                         /\ Armed(disconnect') = Armed(disconnect) \cup {tuple}
                         /\ Cardinality(Armed(disconnect')) = Len(disconnect'.armed)
                  /\ lastArm'.rc # 0 => Armed(disconnect') = Armed(disconnect)
                  /\ disc_sent' = disc_sent
       /\ DestroyStep =>
              /\ Len(disc_sent') = Cardinality(Armed(disconnect))
              /\ \A tuple \in Armed(disconnect) :
                     Cardinality({i \in 1..Len(disc_sent') :
                         disc_sent'[i] = [cb |-> disconnect.cb, sender |-> tuple[1],
                                          matchtag |-> tuple[2]]}) = 1
              /\ ~disconnect.made => disc_sent' = <<>>
              /\ StepIndex(dlog', "pthread_join") < StepIndex(dlog', "disconnect_destroy")
              /\ StepIndex(dlog', "module_set_status")
                     < StepIndex(dlog', "disconnect_destroy")
              /\ StepIndex(dlog', "disconnect_destroy")
                     < StepIndex(dlog', "flux_watcher_stop")
              /\ StepIndex(dlog', "disconnect_destroy")
                     < StepIndex(dlog', "zsock_destroy")
       /\ disc_sent' # disc_sent => DestroyStep]_vars

\* a RUNNING record armed with cb1 and then, for another request, with cb2,
\* has been destroyed: the thread was joined, EXITED forced, and two
\* disconnects went to cb1
C35_Witness ==
    /\ Destroyed /\ Forced /\ t = "joined"
    /\ lastArm.called /\ lastArm.cb = "cb2" /\ lastArm.rc = 0
    /\ Len(disc_sent) = 2
    /\ \A i \in 1..Len(disc_sent) : disc_sent[i].cb = "cb1"

\* C36: servhash_disconnect (uuid) deletes every entry that uuid owns, with
\* its add pending, live, or with its remove pending, and leaves every other
\* entry as it was; after the call servhash_match returns uuid for no topic,
\* and at any time it returns only the owner of an entry of the table.
C36_DisconnectRemovesOwned ==
    /\ [][ServStep("disconnect") =>
              LET uuid == lastServ'.uuid
              IN  /\ \A i \in 1..Len(ServNames) :
                         services'[i] = IF services[i].present /\ services[i].uuid = uuid
                                        THEN NoEntry
                                        ELSE services[i]
                  /\ \A tp \in MatchTopics :
                         /\ servhash_match(services', tp).uuid # uuid
                         /\ servhash_match(services, tp).uuid # uuid =>
                                servhash_match(services', tp) = servhash_match(services, tp)]_vars
    /\ [](\A tp \in MatchTopics :
              LET r == servhash_match(services, tp)
              IN  r.rc = 0 => \E i \in 1..Len(ServNames) :
                                  /\ services[i].present /\ services[i].uuid = r.uuid
                                  /\ strstarts(tp, ServNames[i] \o "."))

\* u1 disconnected owning "a", live with its remove pending, while u2 owns
\* "b" with its add pending: "a" is gone, "b" is as it was and still matches
C36_Witness ==
    /\ lastServ.op = "disconnect" /\ lastServ.uuid = "u1"
    /\ lastServ.before[1].present /\ lastServ.before[1].uuid = "u1"
    /\ lastServ.before[1].live /\ RemovePending(lastServ.before[1])
    /\ ~services[1].present
    /\ services[2].present /\ services[2].uuid = "u2" /\ AddPending(services[2])
    /\ servhash_match(services, "a.x").rc = -1
    /\ servhash_match(services, "b.y").uuid = "u2"

\* sh->respond_cb is called in this step
RespondCalled == lastServ' # lastServ /\ lastServ'.responds # <<>>

\* C37: when the answer to a pending service-add arrives, the respond
\* callback (if one is set) is called once, with the request servhash_add was
\* given, the owner and the result; on success the entry is live and stays,
\* on failure it is deleted and no unregister is sent; the other entries are
\* as they were.  Only the continuation of an answer calls the callback, and
\* the add it answers is pending no more, so no add is answered twice.
C37_AddAnswer ==
    /\ [][ServStep("add_continuation") =>
              LET i == Slot(lastServ'.name)
                  e == services[i]
                  result == lastServ'.errno
              IN  /\ AddPending(e) /\ e.add_request = ServMsg("add", ServNames[i], e.uuid)
                  /\ respond_cb =>
                         lastServ'.responds = <<Respond(e.add_request, e.uuid, result)>>
                  /\ result = 0 =>
                         /\ services'[i].present /\ services'[i].live
                         /\ services'[i].uuid = e.uuid /\ ~AddPending(services'[i])
                         /\ NewlySent = <<>>
                  /\ result # 0 => ~services'[i].present /\ NewlySent = <<>>
                  /\ \A j \in 1..Len(ServNames) : j # i => services'[j] = services[j]]_vars
    /\ [][RespondCalled =>
              /\ lastServ'.op \in {"add_continuation", "remove_continuation"}
              /\ Len(lastServ'.responds) = 1]_vars

\* the upstream broker refused the add of "a" by u1: the callback heard of it
\* with EEXIST, the entry is gone and nothing was sent, while "b", whose add
\* succeeded, is live
C37_Witness ==
    /\ lastServ.op = "add_continuation" /\ lastServ.name = "a"
    /\ lastServ.responds = <<Respond(ServMsg("add", "a", "u1"), "u1", EEXIST)>>
    /\ ~services[1].present /\ lastServ.sent = <<>>
    /\ services[2].present /\ services[2].live

\* slot i holds the same entry before and after this step
SameEntry(i) ==
    /\ services[i].present /\ services'[i].present
    /\ services'[i].f_add = services[i].f_add

\* C38: servhash_remove on an entry whose remove is pending fails with ENOENT,
\* sends nothing and leaves the table as it was; while an entry with a remove
\* sent stays in the table no further unregister for its name is sent and
\* its f_remove is the same future.  When the answer to the remove arrives
\* the respond callback (if one is set) is called once, with the request
\* servhash_remove was given, the owner and the result, and the entry is
\* deleted, whatever the result; the other entries are as they were.
C38_OneRemove ==
    /\ [][(/\ ServStep("remove") /\ lastServ'.fault # "null"
           /\ RemovePending(zhashx_lookup(services, lastServ'.name))) =>
              /\ lastServ'.rc = -1 /\ lastServ'.errno = ENOENT
              /\ NewlySent = <<>> /\ services' = services]_vars
    /\ [][\A i \in 1..Len(ServNames) :
              SameEntry(i) /\ RemovePending(services[i]) =>
                  /\ services'[i].f_remove = services[i].f_remove
                  /\ ~UnregisterSent(i)]_vars
    /\ [][ServStep("remove_continuation") =>
              LET i == Slot(lastServ'.name)
                  e == services[i]
              IN  /\ RemovePending(e)
                  /\ e.remove_request = ServMsg("remove", ServNames[i], e.uuid)
                  /\ respond_cb =>
                         lastServ'.responds =
                             <<Respond(e.remove_request, e.uuid, lastServ'.errno)>>
                  /\ ~respond_cb => lastServ'.responds = <<>>
                  /\ ~services'[i].present
                  /\ \A j \in 1..Len(ServNames) : j # i => services'[j] = services[j]]_vars

\* the remove of "a" by u1 failed upstream: the callback heard of it with the
\* remove request and the error, and the entry is gone
C38_Witness ==
    /\ lastServ.op = "remove_continuation" /\ lastServ.name = "a"
    /\ lastServ.before[1].live /\ RemovePending(lastServ.before[1])
    /\ lastServ.responds = <<Respond(ServMsg("remove", "a", "u1"), "u1", ECONNRESET)>>
    /\ ~services[1].present

\* the unregister requests for the name of slot i sent in this step
Unregisters(i) ==
    Cardinality({k \in 1..Len(NewlySent) :
                    NewlySent[k].op = "remove" /\ NewlySent[k].name = ServNames[i]})

\* the unregister requests sent for the entry of slot i up to the end of this
\* step: the one servhash_remove sent before, if any, and those of the step
UnregistersSoFar(i) ==
    (IF RemovePending(services[i]) THEN 1 ELSE 0) + Unregisters(i)

\* the upstream broker holds no registration for a name without an entry
NoneLeaked ==
    \A i \in 1..Len(ServNames) :
        ServNames[i] \in up_services => services[i].present

\* C39 as stated: over the life of an entry at most one unregister for its
\* name is sent, whatever the order of add, remove, disconnect, destroy and
\* the answers; and once the entry is gone and nothing is in flight the
\* upstream broker holds no registration for the name.
C39_AtMostOneUnregister ==
    /\ [][\A i \in 1..Len(ServNames) :
              services[i].present => UnregistersSoFar(i) <= 1]_vars
    /\ [](Quiet => NoneLeaked)

\* the entry of slot i is torn down in this step with its add unanswered and
\* its remove sent (by an earlier servhash_remove, or by the one that deletes
\* it); the continuation of a failed add deletes an entry whose add is
\* answered
BothPendingTornDown(i) ==
    /\ TornDown(i) /\ AddPending(services[i])
    /\ ~ServStep("add_continuation")
    /\ RemovePending(services[i]) \/ ServStep("remove")

\* C39 amended: at most one unregister per entry, but for an entry torn down
\* while both its add and its remove are pending, which has a second one,
\* open-loop, sent as it is torn down; and once nothing is in flight the
\* upstream broker holds no registration for a name without an entry, and
\* none at all after servhash_destroy.
C39_OneUnregisterUnlessBothPending ==
    /\ [][\A i \in 1..Len(ServNames) :
              services[i].present =>
                  IF BothPendingTornDown(i) THEN UnregistersSoFar(i) = 2
                  ELSE UnregistersSoFar(i) <= 1]_vars
    /\ [](Quiet /\ ~sh_live => up_services = {})
    /\ [](Quiet => \A i \in 1..Len(ServNames) :
                       ~services[i].present => ServNames[i] \notin up_services)

\* u1 disconnected while both the add and the remove of "a" were pending:
\* a second unregister for "a" was sent
C39_Witness ==
    /\ lastServ.op = "disconnect" /\ lastServ.uuid = "u1"
    /\ lastServ.before[1].present /\ lastServ.before[1].uuid = "u1"
    /\ AddPending(lastServ.before[1]) /\ RemovePending(lastServ.before[1])
    /\ lastServ.sent = <<Request(3, "remove", "a")>>
    /\ ~services[1].present

\* module_event_cast is called in this step
CastStep == lastCast' # lastCast /\ lastCast'.called

\* C40: once muted the record stays muted; a cast to a muted module puts
\* nothing on the channel; for an event whose topic a subscription matches it
\* returns -1 with errno ENOSYS, set by the module_sendmsg call it made with
\* the event, and for an event no subscription matches it returns 0 with no
\* module_sendmsg call.
C40_MutedCastDeliversNothing ==
    /\ [][muted => muted']_vars
    /\ [][(CastStep /\ muted) =>
              /\ lastCast'.muted /\ lastCast'.out = NoMsg /\ toMod' = toMod
              /\ lastCast'.fault # "topic" =>
                     IF match_sub(subs, lastCast'.msg.topic)
                     THEN /\ lastCast'.rc = -1
                          /\ lastSend'.called /\ lastSend'.msg = lastCast'.msg
                          /\ lastSend'.rc = -1 /\ lastSend'.errno = ENOSYS
                     ELSE lastCast'.rc = 0 /\ lastSend' = lastSend]_vars

\* the module subscribed to "job." was muted and the event "job.state.RUN"
\* was then cast to it: the cast failed with ENOSYS and the channel is empty
C40_Witness ==
    /\ muted /\ lastCast.called /\ lastCast.muted
    /\ lastCast.msg.topic = "job.state.RUN" /\ CastMatches
    /\ lastCast.rc = -1 /\ lastCast.out = NoMsg
    /\ lastSend.msg = lastCast.msg /\ lastSend.errno = ENOSYS
    /\ toMod = <<>>

====
